---- MODULE Spec2Model ----
(***************************************************************************)
(* A model of the schema/type resolution and code-generation engine of     *)
(* google-discovery-mcp (package discovery).                               *)
(*                                                                         *)
(* Go values are modelled as follows.                                      *)
(*   string        a sequence of one-character strings ("" is << >>)       *)
(*   *T            << >> for nil, << v >> for a pointer to v               *)
(*   map[string]T  a function whose domain is the set of keys              *)
(*   []T           a sequence                                              *)
(***************************************************************************)
EXTENDS Integers, Sequences, FiniteSets, TLC

VARIABLES
    doc,                \* the *Document handed to the generator
    opts,               \* the caller's GenerateOptions value
    pc,                 \* position of the running function
    methodsToGenerate,  \* []*MethodInfo
    needed,             \* collectSchemas: the visited set  map[string]bool
    stack,              \* collectSchemas: pending calls and loop remainders
    schemasToGen,       \* []*SchemaInfo returned by collectSchemas
    ran,                \* the steps that have run so far, in order
    o,                  \* GenerateMCPTools: its own copy of opts
    allMethods,         \* GenerateMCPTools: doc.AllMethods()
    methodNames,        \* GenerateMCPTools: the names to generate
    buf,                \* GenerateMCPTools: the rendered text
    ret,                \* GenerateMCPTools: the returned (string, error)
    formatErr,          \* GenerateMCPTools: the err of format.Source
    arg,                \* the arguments of a helper called on its own
    res                 \* what that helper returned

genVars == <<o, allMethods, methodNames, buf, ret, formatErr>>
fnVars == <<arg, res>>
vars == <<doc, opts, pc, methodsToGenerate, needed, stack, schemasToGen, ran,
          genVars, fnVars>>

---------------------------------------------------------------------------
(* Bounds of the model. *)

\* Deepest chain of inline sub-schemas placed between a named schema and a $ref.
MaxNest == 2

\* Schemas in the longest chain of named schemas, each referring to the next.
MaxChain == 5

---------------------------------------------------------------------------
(* Strings. *)

\* The bytes the model uses, in ascending order.  "HT" stands for the tab,
\* "LF" for the newline, "CR" for the carriage return, "DQ" for the double
\* quote and "BQ" for the backtick.  The bytes above 0x7F are named by their
\* value: "C3" "A9" spell the letter e with an acute accent, "C3" "89" its
\* upper case, and "EF" "BF" "BD" the replacement character U+FFFD.
ByteOrder ==
    << "HT", "LF", "CR", " ", "DQ", "$", "'", "(", ")", "*", "+", ",", "-", ".",
       "0", "1", "2", "3", "4", "5", "6", "7", "8", "9", ":",
       "A", "B", "C", "D", "E", "F", "G", "H", "I", "J", "K", "L", "M",
       "N", "O", "P", "Q", "R", "S", "T", "U", "V", "W", "X", "Y", "Z",
       "[", "]", "_", "BQ",
       "a", "b", "c", "d", "e", "f", "g", "h", "i", "j", "k", "l", "m",
       "n", "o", "p", "q", "r", "s", "t", "u", "v", "w", "x", "y", "z",
       "89", "A9", "BD", "BF", "C3", "EF" >>

ByteRank(c) == CHOOSE i \in 1..Len(ByteOrder) : ByteOrder[i] = c

\* Go's s < t on strings: bytewise lexicographic, a proper prefix is smaller.
RECURSIVE StrLess(_, _)
StrLess(s, t) ==
    IF t = << >> THEN FALSE
    ELSE IF s = << >> THEN TRUE
    ELSE IF Head(s) = Head(t) THEN StrLess(Tail(s), Tail(t))
    ELSE ByteRank(Head(s)) < ByteRank(Head(t))

\* sort.Strings over the keys gathered from a map: ascending order.
RECURSIVE SortStrings(_)
SortStrings(S) ==
    IF S = {} THEN << >>
    ELSE LET m == CHOOSE x \in S : \A y \in S \ {x} : StrLess(x, y)
         IN  <<m>> \o SortStrings(S \ {m})

Lower == <<"a", "b", "c", "d", "e", "f", "g", "h", "i", "j", "k", "l", "m",
           "n", "o", "p", "q", "r", "s", "t", "u", "v", "w", "x", "y", "z">>

Upper == <<"A", "B", "C", "D", "E", "F", "G", "H", "I", "J", "K", "L", "M",
           "N", "O", "P", "Q", "R", "S", "T", "U", "V", "W", "X", "Y", "Z">>

\* The upper case of an ASCII character.
UpperASCII(c) ==
    IF \E i \in 1..Len(Lower) : Lower[i] = c
    THEN Upper[CHOOSE i \in 1..Len(Lower) : Lower[i] = c]
    ELSE c

\* UTF-8: the lead byte of a character of two bytes, the lead byte of a
\* character of three bytes, and the continuation bytes.
Lead2 == {"C3"}

Lead3 == {"EF"}

Continuation == {"89", "A9", "BD", "BF"}

NonASCII == Lead2 \cup Lead3 \cup Continuation

\* utf8.RuneError as string(rune) encodes it.
RuneError == <<"EF", "BF", "BD">>

\* The number of bytes of the character a text starts with; 0 when the
\* text starts with a byte that begins no character.
RuneLen(s) ==
    IF s = << >> THEN 0
    ELSE IF s[1] \notin NonASCII THEN 1
    ELSE IF s[1] \in Lead2 /\ Len(s) >= 2 /\ s[2] \in Continuation THEN 2
    ELSE IF s[1] \in Lead3 /\ Len(s) >= 3 /\ s[2] \in Continuation
                            /\ s[3] \in Continuation THEN 3
    ELSE 0

\* []rune(s): the characters of a text, each as the bytes that encode it;
\* a byte that begins no character is read as utf8.RuneError.
RECURSIVE Runes(_)
Runes(s) ==
    IF s = << >> THEN << >>
    ELSE LET n == RuneLen(s) IN
         IF n = 0 THEN <<RuneError>> \o Runes(Tail(s))
         ELSE <<SubSeq(s, 1, n)>> \o Runes(SubSeq(s, n + 1, Len(s)))

\* utf8.ValidString: every byte above 0x7F is at its place in a character.
ValidUTF8(s) ==
    \A i \in 1..Len(s) :
        /\ s[i] \in Lead2 => i + 1 <= Len(s) /\ s[i + 1] \in Continuation
        /\ s[i] \in Lead3 => /\ i + 2 <= Len(s)
                              /\ s[i + 1] \in Continuation
                              /\ s[i + 2] \in Continuation
        /\ s[i] \in Continuation =>
              \/ i > 1 /\ s[i - 1] \in Lead2 \cup Lead3
              \/ i > 2 /\ s[i - 2] \in Lead3 /\ s[i - 1] \in Continuation

\* strings.ToUpper on a string of one byte: an ASCII letter is put in upper
\* case, a byte above 0x7F is no character by itself and comes out as
\* utf8.RuneError.
ToUpper(c) == IF c \in NonASCII THEN RuneError ELSE <<UpperASCII(c)>>

\* unicode.ToUpper(runes[0]): behind line 375 the first character of the
\* result is an ASCII character or utf8.RuneError, which has no upper case.
RuneToUpper(r) == IF Len(r) = 1 THEN <<UpperASCII(r[1])>> ELSE r

\* strings.ReplaceAll for a non-empty old: the leftmost occurrence is
\* replaced, and the search goes on behind it, so that the replaced
\* occurrences do not overlap.
RECURSIVE ReplaceAll(_, _, _)
ReplaceAll(s, old, new) ==
    LET found == {i \in 1..(Len(s) - Len(old) + 1) :
                     SubSeq(s, i, i + Len(old) - 1) = old}
    IN  IF found = {} THEN s
        ELSE LET i == CHOOSE x \in found : \A y \in found : x <= y
             IN  SubSeq(s, 1, i - 1) \o new
                 \o ReplaceAll(SubSeq(s, i + Len(old), Len(s)), old, new)

\* unicode.IsSpace on the characters of the model.
IsSpace(c) == c \in {"HT", "LF", "CR", " "}

\* strings.Fields: the maximal runs of characters that are not white space.
RECURSIVE FieldsFrom(_, _)
FieldsFrom(s, word) ==
    IF s = << >> THEN (IF word = << >> THEN << >> ELSE <<word>>)
    ELSE IF IsSpace(Head(s))
    THEN (IF word = << >> THEN << >> ELSE <<word>>) \o FieldsFrom(Tail(s), << >>)
    ELSE FieldsFrom(Tail(s), Append(word, Head(s)))

Fields(s) == FieldsFrom(s, << >>)

\* strings.Join(words, "")
RECURSIVE Concat(_)
Concat(words) ==
    IF words = << >> THEN << >> ELSE Head(words) \o Concat(Tail(words))

\* words[i] = strings.ToUpper(w[:1]) + w[1:]
Capitalize(w) == IF w = << >> THEN w ELSE ToUpper(Head(w)) \o Tail(w)

\* runes := []rune(result); runes[0] = unicode.ToUpper(runes[0]);
\* result = string(runes)
UpperFirstRune(result) ==
    IF result = << >> THEN result
    ELSE LET runes == Runes(result) IN
         Concat([i \in 1..Len(runes) |->
                    IF i = 1 THEN RuneToUpper(runes[i]) ELSE runes[i]])

\* The four acronym replacements of exportedName, in source order.
Acronyms(s) ==
    ReplaceAll(ReplaceAll(ReplaceAll(ReplaceAll(s,
        <<"I","d">>, <<"I","D">>),
        <<"U","r","l">>, <<"U","R","L">>),
        <<"H","t","t","p">>, <<"H","T","T","P">>),
        <<"A","p","i">>, <<"A","P","I">>)

exportedName(s) ==
    IF s = << >> THEN << >>
    ELSE LET spaced == ReplaceAll(ReplaceAll(s, <<"_">>, <<" ">>), <<"-">>, <<" ">>)
             words  == Fields(spaced)
             joined == Concat([i \in 1..Len(words) |-> Capitalize(words[i])])
             result == Acronyms(joined)
         IN  UpperFirstRune(result)

Range(f) == {f[x] : x \in DOMAIN f}

NoMap == [x \in {} |-> << >>]

\* The type, format and Go type names the code compares with and returns.
tString  == <<"s","t","r","i","n","g">>
tInteger == <<"i","n","t","e","g","e","r">>
tNumber  == <<"n","u","m","b","e","r">>
tBoolean == <<"b","o","o","l","e","a","n">>
tAny     == <<"a","n","y">>
tObject  == <<"o","b","j","e","c","t">>
tArray   == <<"a","r","r","a","y">>

gString  == <<"s","t","r","i","n","g">>
gInt32   == <<"i","n","t","3","2">>
gUint32  == <<"u","i","n","t","3","2">>
gInt64   == <<"i","n","t","6","4">>
gUint64  == <<"u","i","n","t","6","4">>
gFloat32 == <<"f","l","o","a","t","3","2">>
gFloat64 == <<"f","l","o","a","t","6","4">>
gBool    == <<"b","o","o","l">>
gPtrBool == <<"*","b","o","o","l">>
gAny     == <<"a","n","y">>
fFloat   == <<"f","l","o","a","t">>
fDouble  == <<"d","o","u","b","l","e">>

---------------------------------------------------------------------------
(* The document model. *)

\* A Schema value with every field at its zero value.
ZeroSchema ==
    [Type |-> << >>, Format |-> << >>, Ref |-> << >>,
     Properties |-> NoMap, Items |-> << >>, AdditionalProperties |-> << >>,
     Required |-> FALSE, Annotations |-> << >>, Description |-> << >>,
     Default |-> << >>, Enum |-> << >>, ReadOnly |-> FALSE]

RefTo(name) == [ZeroSchema EXCEPT !.Ref = name]

Scalar(typ, format) == [ZeroSchema EXCEPT !.Type = typ, !.Format = format]

ObjectOf(props) ==
    [ZeroSchema EXCEPT !.Type = tObject, !.Properties = props]

ArrayOf(item) ==
    [ZeroSchema EXCEPT !.Type = tArray, !.Items = <<item>>]

MapOf(value) ==
    [ZeroSchema EXCEPT !.Type = tObject,
                       !.AdditionalProperties = <<value>>]

\* NewSchemaInfo: the required set is built from Annotations.Required.
NewSchemaInfo(name, schema) ==
    [Name |-> name, Schema |-> schema,
     RequiredSet |-> IF schema.Annotations = << >> THEN {}
                     ELSE Range(schema.Annotations[1])]

---------------------------------------------------------------------------
(* Type resolution. *)

\* The boolean case of scalarGoType.
BoolGoType_AlwaysPlain(optional) == gBool

BoolGoType(optional) == IF optional THEN gPtrBool ELSE gBool

NumberGoType_Always64(typeFormat) == gFloat64

\* The "number" case of scalarGoType.
NumberGoType(typeFormat) ==
    CASE typeFormat = fFloat  -> gFloat32
      [] typeFormat = fDouble -> gFloat64
      [] OTHER -> gFloat64

scalarGoType(typ, typeFormat, optional) ==
    CASE typ = tString -> gString
      [] typ = tInteger ->
            (CASE typeFormat = gInt32  -> gInt32
               [] typeFormat = gUint32 -> gUint32
               [] typeFormat = gInt64  -> gInt64
               [] typeFormat = gUint64 -> gUint64
               [] OTHER -> gInt64)
      [] typ = tNumber -> NumberGoType(typeFormat)
      [] typ = tBoolean -> BoolGoType(optional)
      [] typ = tAny -> gAny
      [] OTHER -> gAny

ZeroParameter ==
    [Type |-> << >>, Format |-> << >>, Required |-> FALSE, Repeated |-> FALSE,
     Description |-> << >>, Default |-> << >>, Enum |-> << >>]

ElementOptional_Inherited(optional) == optional

\* The optional argument passed for the elements of an array, the values of
\* a map and the elements of a repeated parameter: always false.
ElementOptional(optional) == FALSE

paramGoType(p) ==
    LET optional == ~p.Required IN
    IF p.Repeated
    THEN <<"[", "]">> \o scalarGoType(p.Type, p.Format, ElementOptional(optional))
    ELSE scalarGoType(p.Type, p.Format, optional)

\* The test that makes a referenced schema a wrapper of a simple type.
IsWrapper_Never(refSchema) == FALSE

IsWrapper(refSchema) ==
    refSchema.Type # << >> /\ refSchema.Type # tObject /\ refSchema.Type # tArray

\* PropertyInfo.resolveType(schema, optional), with p.AllSchemas passed along.
RECURSIVE resolveType(_, _, _)
resolveType(schema, optional, allSchemas) ==
    IF schema.Ref # << >>
    THEN IF schema.Ref \in DOMAIN allSchemas /\ IsWrapper(allSchemas[schema.Ref])
         THEN scalarGoType(allSchemas[schema.Ref].Type,
                           allSchemas[schema.Ref].Format, optional)
         ELSE <<"*">> \o exportedName(schema.Ref)
    ELSE CASE schema.Type = tArray ->
                IF schema.Items # << >>
                THEN <<"[", "]">> \o resolveType(schema.Items[1], ElementOptional(optional),
                                                  allSchemas)
                ELSE <<"[", "]">> \o gAny
           [] schema.Type = tObject ->
                IF schema.AdditionalProperties # << >>
                THEN <<"m","a","p","[","s","t","r","i","n","g","]">>
                     \o resolveType(schema.AdditionalProperties[1],
                                    ElementOptional(optional), allSchemas)
                ELSE <<"m","a","p","[","s","t","r","i","n","g","]">> \o gAny
           [] OTHER -> scalarGoType(schema.Type, schema.Format, optional)

PropertyInfoOf(name, property, required, allSchemas) ==
    [Name |-> name, Property |-> property, Required |-> required,
     AllSchemas |-> allSchemas]

\* PropertyInfo.GoType
PropertyGoType(p) == resolveType(p.Property, ~p.Required, p.AllSchemas)

---------------------------------------------------------------------------
(* collectSchemas: the pending work is kept as a stack of frames.  A frame *)
(* is a call still to be made or the remainder of a loop.                  *)

Frame(kind, i, name, schema, rest) ==
    [kind |-> kind, i |-> i, name |-> name, schema |-> schema, rest |-> rest]

MethodsLoop(i)   == Frame("methods", i, << >>, ZeroSchema, {})
RefCall(name)    == Frame("ref", 0, name, ZeroSchema, {})
SchemaCall(s)    == Frame("schema", 0, << >>, s, {})
PropsLoop(s, r)  == Frame("props", 0, << >>, s, r)

ItemsAndAdditional_NoAdditional(s) ==
    IF s.Items # << >> THEN <<SchemaCall(s.Items[1])>> ELSE << >>

\* The calls made for Items and AdditionalProperties, in source order.
ItemsAndAdditional(s) ==
    (IF s.Items # << >> THEN <<SchemaCall(s.Items[1])>> ELSE << >>)
    \o (IF s.AdditionalProperties # << >>
        THEN <<SchemaCall(s.AdditionalProperties[1])>> ELSE << >>)

\* What collectSchemaRefs does after marking the schema as needed.
RefBody_NoProperties(s) == ItemsAndAdditional(s)

RefBody(s) == <<PropsLoop(s, DOMAIN s.Properties)>> \o ItemsAndAdditional(s)

\* The calls of collectSchemaRefsFromSchema, in source order.
SchemaBody(s) ==
    (IF s.Ref # << >> THEN <<RefCall(s.Ref)>> ELSE << >>)
    \o <<PropsLoop(s, DOMAIN s.Properties)>> \o ItemsAndAdditional(s)

MethodRoots_RequestOnly(m) ==
    IF m.Request # << >> /\ m.Request[1].Ref # << >>
    THEN <<RefCall(m.Request[1].Ref)>> ELSE << >>

\* The calls one iteration of collectSchemas' loop over the methods makes.
MethodRoots(m) ==
    (IF m.Request # << >> /\ m.Request[1].Ref # << >>
     THEN <<RefCall(m.Request[1].Ref)>> ELSE << >>)
    \o (IF m.Response # << >> /\ m.Response[1].Ref # << >>
        THEN <<RefCall(m.Response[1].Ref)>> ELSE << >>)

\* The tail of collectSchemas: names sorted, then looked up again.
RECURSIVE LookupAll(_, _)
LookupAll(names, allSchemas) ==
    IF names = << >> THEN << >>
    ELSE (IF Head(names) \in DOMAIN allSchemas
          THEN <<NewSchemaInfo(Head(names), allSchemas[Head(names)])>>
          ELSE << >>)
         \o LookupAll(Tail(names), allSchemas)

CollectResult_Unsorted(neededSet, allSchemas) ==
    LET sorted == SortStrings(neededSet)
        n      == Len(sorted)
    IN  LookupAll([i \in 1..n |-> sorted[n + 1 - i]], allSchemas)

CollectResult_Everything(neededSet, allSchemas) ==
    LookupAll(SortStrings(DOMAIN allSchemas), allSchemas)

CollectResult(neededSet, allSchemas) ==
    LookupAll(SortStrings(neededSet), allSchemas)

CollectBegin ==
    /\ pc = "collect"
    /\ needed' = {}
    /\ stack' = <<MethodsLoop(1)>>
    /\ pc' = "collecting"
    /\ ran' = Append(ran, "collect")
    /\ UNCHANGED <<doc, opts, methodsToGenerate, schemasToGen, genVars, fnVars>>

\* for _, m := range methods { ... }
CollectMethodsLoop ==
    /\ pc = "collecting"
    /\ stack # << >>
    /\ Head(stack).kind = "methods"
    /\ LET i == Head(stack).i IN
       IF i > Len(methodsToGenerate)
       THEN /\ stack' = Tail(stack)
            /\ pc' = pc
       ELSE IF methodsToGenerate[i].Method = << >>
       THEN /\ stack' = << >>          \* m.Method.Request on a nil *Method
            /\ pc' = "panic"
       ELSE /\ stack' = MethodRoots(methodsToGenerate[i].Method[1])
                        \o <<MethodsLoop(i + 1)>> \o Tail(stack)
            /\ pc' = pc
    /\ UNCHANGED <<doc, opts, methodsToGenerate, needed, schemasToGen, ran, genVars, fnVars>>

NotFound_Marked(name, neededSet) == neededSet \cup {name}

\* schema, ok := allSchemas[schemaName]; if !ok { return }: the set of needed
\* names after the return for a name that is no key of the mapping.
NotFound(name, neededSet) == neededSet

\* if needed[schemaName] { return }
AlreadyCollected(name, neededSet) == name \in neededSet

\* collectSchemaRefs(schemaName, allSchemas, needed)
CollectSchemaRefs ==
    /\ pc = "collecting"
    /\ stack # << >>
    /\ Head(stack).kind = "ref"
    /\ LET name == Head(stack).name IN
       IF AlreadyCollected(name, needed)
       THEN /\ stack' = Tail(stack)
            /\ needed' = needed
       ELSE IF name \notin DOMAIN doc.Schemas
       THEN /\ stack' = Tail(stack)
            /\ needed' = NotFound(name, needed)
       ELSE /\ needed' = needed \cup {name}
            /\ stack' = RefBody(doc.Schemas[name]) \o Tail(stack)
    /\ UNCHANGED <<doc, opts, pc, methodsToGenerate, schemasToGen, ran, genVars, fnVars>>

\* for _, prop := range schema.Properties { collectSchemaRefsFromSchema(prop, ...) }
\* A map is ranged over in an unspecified order.
CollectPropertiesLoop ==
    /\ pc = "collecting"
    /\ stack # << >>
    /\ Head(stack).kind = "props"
    /\ LET f == Head(stack) IN
       IF f.rest = {}
       THEN stack' = Tail(stack)
       ELSE \E n \in f.rest :
              stack' = <<SchemaCall(f.schema.Properties[n]),
                         PropsLoop(f.schema, f.rest \ {n})>> \o Tail(stack)
    /\ UNCHANGED <<doc, opts, pc, methodsToGenerate, needed, schemasToGen, ran, genVars, fnVars>>

\* collectSchemaRefsFromSchema(schema, allSchemas, needed)
CollectSchemaRefsFromSchema ==
    /\ pc = "collecting"
    /\ stack # << >>
    /\ Head(stack).kind = "schema"
    /\ stack' = SchemaBody(Head(stack).schema) \o Tail(stack)
    /\ UNCHANGED <<doc, opts, pc, methodsToGenerate, needed, schemasToGen, ran, genVars, fnVars>>

\* The loop over the methods is over: sort the names and build the result.
CollectFinish ==
    /\ pc = "collecting"
    /\ stack = << >>
    /\ schemasToGen' = CollectResult(needed, doc.Schemas)
    /\ pc' = "collected"
    /\ UNCHANGED <<doc, opts, methodsToGenerate, needed, stack, ran, genVars, fnVars>>

CollectNext ==
    \/ CollectBegin
    \/ CollectMethodsLoop
    \/ CollectSchemaRefs
    \/ CollectPropertiesLoop
    \/ CollectSchemaRefsFromSchema
    \/ CollectFinish

---------------------------------------------------------------------------
(* The inputs of collectSchemas: schema mappings and method lists.         *)

SchemaNames == {<<"A">>, <<"A","b">>, <<"B">>}

\* One inline sub-schema of the given kind around s.
Wrap(kind, s) ==
    CASE kind = "prop"  -> ObjectOf([n \in {<<"p">>} |-> s])
      [] kind = "items" -> ArrayOf(s)
      [] kind = "addl"  -> MapOf(s)

NextKind(kind) ==
    CASE kind = "prop" -> "items" [] kind = "items" -> "addl" [] kind = "addl" -> "prop"

\* A chain of d sub-schemas around a reference to t; the outermost is of kind k.
RECURSIVE ChainOver(_, _, _)
ChainOver(d, k, base) ==
    IF d = 0 THEN base ELSE Wrap(k, ChainOver(d - 1, NextKind(k), base))

Chain(d, k, t) == ChainOver(d, k, RefTo(t))

TwoProps(t1, t2) ==
    ObjectOf([n \in {<<"p">>, <<"q">>} |-> IF n = <<"p">> THEN RefTo(t1) ELSE RefTo(t2)])

StringSchema == Scalar(<<"s","t","r","i","n","g">>, << >>)

\* Bodies of the schema whose edges are of every kind and depth.
RichBodies ==
    {StringSchema}
    \cup {Chain(d, k, t) : d \in 1..MaxNest, k \in {"prop", "items", "addl"},
                           t \in SchemaNames}
    \cup {TwoProps(<<"A","b">>, <<"B">>), TwoProps(<<"B">>, <<"A">>)}

\* Bodies of the other schemas: a scalar, or an object with references.
PlainBodies ==
    {StringSchema}
    \cup {Chain(1, "prop", t) : t \in SchemaNames}
    \cup {TwoProps(<<"A">>, <<"B">>)}

\* Names for a chain of named schemas, in ascending order.
ChainNames ==
    << <<"A">>, <<"A","b">>, <<"B">>, <<"C">>, <<"D">>, <<"E">>, <<"F">>,
       <<"G">>, <<"H">>, <<"I">>, <<"J">>, <<"K">> >>

\* The first n of the names, each an object whose property refers to the
\* next; the last refers back to the first when the chain is closed.
LongChain(n, closed) ==
    [name \in {ChainNames[i] : i \in 1..n} |->
        LET i == CHOOSE j \in 1..n : ChainNames[j] = name IN
        IF i < n THEN Chain(1, "prop", ChainNames[i + 1])
        ELSE IF closed THEN Chain(1, "prop", ChainNames[1])
        ELSE ObjectOf(NoMap)]

\* The key "B" may be absent, which leaves the references to it dangling.
SchemaMaps ==
    {m \in [SchemaNames -> RichBodies \cup PlainBodies] :
        /\ m[<<"A">>] \in RichBodies
        /\ m[<<"A","b">>] \in PlainBodies
        /\ m[<<"B">>] \in PlainBodies}
    \cup
    {m \in [SchemaNames \ {<<"B">>} -> RichBodies \cup PlainBodies] :
        /\ m[<<"A">>] \in RichBodies
        /\ m[<<"A","b">>] \in PlainBodies}
    \cup
    {LongChain(MaxChain, closed) : closed \in BOOLEAN}

SchemaRef(name) == <<[Ref |-> name]>>

MethodOf(request, response) ==
    [Description |-> << >>, Parameters |-> NoMap, ParameterOrder |-> << >>,
     Request |-> request, Response |-> response]

MethodInfoOf(fullName, method) ==
    [FullName |-> fullName, Method |-> method, Prefix |-> << >>,
     StructPrefix |-> << >>]

CollectMethodLists ==
    LET mi(req, resp) == MethodInfoOf(<<"m">>, <<MethodOf(req, resp)>>) IN
    { << >>,
      << mi(<< >>, SchemaRef(<<"A">>)) >>,
      << mi(SchemaRef(<<"A","b">>), << >>) >>,
      << mi(SchemaRef(<<"B">>), SchemaRef(<<"A","b">>)) >>,
      << mi(SchemaRef(<< >>), SchemaRef(<<"B">>)) >>,
      << mi(<< >>, SchemaRef(<<"A","b">>)), mi(SchemaRef(<<"A">>), << >>) >> }

ZeroDoc ==
    [Name |-> << >>, Version |-> << >>, Title |-> << >>, Schemas |-> NoMap,
     Resources |-> NoMap, Methods |-> NoMap]

ZeroOpts ==
    [PackageName |-> << >>, Methods |-> << >>, Prefix |-> << >>,
     StructPrefix |-> << >>, GenerateSchema |-> FALSE]

NoReturn == [code |-> << >>, err |-> "none"]

\* The variables of GenerateMCPTools while it is not running.
GenIdle ==
    /\ o = ZeroOpts
    /\ allMethods = NoMap
    /\ methodNames = << >>
    /\ buf = << >>
    /\ ret = NoReturn
    /\ formatErr = "unset"

\* The variables of a helper call while none is made.
FnIdle ==
    /\ arg = [fn |-> "none"]
    /\ res = << >>

\* collectSchemas called on its own, as the package's tests call it.
InitCollect ==
    /\ doc \in {[ZeroDoc EXCEPT !.Schemas = m] : m \in SchemaMaps}
    /\ methodsToGenerate \in CollectMethodLists
    /\ opts = [ZeroOpts EXCEPT !.GenerateSchema = TRUE]
    /\ pc = "collect"
    /\ needed = {}
    /\ stack = << >>
    /\ schemasToGen = << >>
    /\ ran = << >>
    /\ GenIdle
    /\ FnIdle

SpecCollect == InitCollect /\ [][CollectNext]_vars

\* The calls run one after the other until the function returns.
FairSpecCollect == SpecCollect /\ WF_vars(CollectNext)

---------------------------------------------------------------------------
(* Reachability in the schema graph, stated without the traversal.         *)

\* Every name a schema refers to, at any depth of its inline sub-schemas.
RECURSIVE Mentions(_)
Mentions(s) ==
    (IF s.Ref # << >> THEN {s.Ref} ELSE {})
    \cup UNION {Mentions(s.Properties[n]) : n \in DOMAIN s.Properties}
    \cup (IF s.Items # << >> THEN Mentions(s.Items[1]) ELSE {})
    \cup (IF s.AdditionalProperties # << >>
          THEN Mentions(s.AdditionalProperties[1]) ELSE {})

\* The existing schemas a named schema refers to.
Succ(n) == Mentions(doc.Schemas[n]) \cap DOMAIN doc.Schemas

RECURSIVE Closure(_)
Closure(S) ==
    LET next == S \cup UNION {Succ(n) : n \in S}
    IN  IF next = S THEN S ELSE Closure(next)

\* The existing schemas the selected methods name as request or response.
RootRefs ==
    {r \in DOMAIN doc.Schemas :
        \E i \in 1..Len(methodsToGenerate) :
            /\ methodsToGenerate[i].Method # << >>
            /\ LET m == methodsToGenerate[i].Method[1] IN
               \/ m.Request # << >> /\ r # << >> /\ m.Request[1].Ref = r
               \/ m.Response # << >> /\ r # << >> /\ m.Response[1].Ref = r}

Reachable == Closure(RootRefs)

ResultNames == {schemasToGen[i].Name : i \in 1..Len(schemasToGen)}

NoNameTwice ==
    \A i, j \in 1..Len(schemasToGen) :
        schemasToGen[i].Name = schemasToGen[j].Name => i = j

\* The references that sit directly in a property, in Items, in
\* AdditionalProperties, and those below an inline sub-schema.
ViaProperty(s) ==
    {s.Properties[n].Ref : n \in DOMAIN s.Properties} \ {<< >>}

ViaItems(s) == IF s.Items # << >> THEN {s.Items[1].Ref} \ {<< >>} ELSE {}

ViaAdditional(s) ==
    IF s.AdditionalProperties # << >>
    THEN {s.AdditionalProperties[1].Ref} \ {<< >>} ELSE {}

ViaNested(s) ==
    UNION {Mentions([s.Properties[n] EXCEPT !.Ref = << >>]) :
             n \in DOMAIN s.Properties}
    \cup (IF s.Items # << >>
          THEN Mentions([s.Items[1] EXCEPT !.Ref = << >>]) ELSE {})
    \cup (IF s.AdditionalProperties # << >>
          THEN Mentions([s.AdditionalProperties[1] EXCEPT !.Ref = << >>])
          ELSE {})

---------------------------------------------------------------------------
(* Claims about collectSchemas. *)

\* C1: on every schema mapping, cyclic ones included, collectSchemas
\* terminates, and its result holds every schema reachable from the selected
\* methods' request and response references, no name twice.
C1_TerminatesEachOnce ==
    /\ <>(pc = "collected")
    /\ [](pc = "collected" => Reachable \subseteq ResultNames /\ NoNameTwice)

\* A collection that ended on a graph with a direct and an indirect cycle.
C1_Witness ==
    /\ pc = "collected"
    /\ \E a, b \in ResultNames :
         /\ a # b
         /\ b \in Succ(a) /\ a \in Succ(b)
         /\ b \in Succ(b)

\* C2: collectSchemas returns a schema only if a selected method reaches it;
\* a schema no selected method reaches is not in the result.
C2_OnlyReachable ==
    pc = "collected" =>
        /\ ResultNames \subseteq Reachable
        /\ \A n \in DOMAIN doc.Schemas \ Reachable : n \notin ResultNames

\* A collection that returned some schemas and left a dead schema out.
C2_Witness ==
    /\ pc = "collected"
    /\ schemasToGen # << >>
    /\ DOMAIN doc.Schemas \ Reachable # {}
    /\ \E n \in DOMAIN doc.Schemas \ Reachable : Succ(n) \cap Reachable # {}

\* C3: an existing schema that a collected schema mentions in a property, in
\* its item type, in its additional-properties type or below an inline
\* sub-schema is collected too.
C3_AllEdgeKinds ==
    pc = "collected" =>
        \A i \in 1..Len(schemasToGen) :
            LET s == schemasToGen[i].Schema IN
            /\ ViaProperty(s) \cap DOMAIN doc.Schemas \subseteq ResultNames
            /\ ViaItems(s) \cap DOMAIN doc.Schemas \subseteq ResultNames
            /\ ViaAdditional(s) \cap DOMAIN doc.Schemas \subseteq ResultNames
            /\ ViaNested(s) \cap DOMAIN doc.Schemas \subseteq ResultNames

\* A collected schema whose only edge is a reference two sub-schemas deep,
\* below an additional-properties type, to a schema that is no root.
C3_Witness ==
    /\ pc = "collected"
    /\ \E i \in 1..Len(schemasToGen) :
         LET s == schemasToGen[i].Schema IN
         /\ s.AdditionalProperties # << >>
         /\ ViaAdditional(s) = {}
         /\ \E t \in ViaNested(s) \cap DOMAIN doc.Schemas :
              t \notin RootRefs /\ t # schemasToGen[i].Name

\* C11: the list collectSchemas returns is in ascending lexicographic order
\* of schema name.
C11_ResultSortedByName ==
    pc = "collected" =>
        \A i, j \in 1..Len(schemasToGen) :
            i < j => StrLess(schemasToGen[i].Name, schemasToGen[j].Name)

\* Three schemas were returned although the traversal started at the name
\* that sorts last; one name is a proper prefix of another.
C11_Witness ==
    /\ pc = "collected"
    /\ Len(schemasToGen) = 3
    /\ schemasToGen[1].Name = <<"A">> /\ schemasToGen[2].Name = <<"A","b">>
    /\ schemasToGen[3].Name = <<"B">>
    /\ methodsToGenerate[1].Method[1].Request = SchemaRef(<<"B">>)

\* The names a schema refers to that are other returned schemas.
DependsOn(i) ==
    (Mentions(schemasToGen[i].Schema) \cap ResultNames) \ {schemasToGen[i].Name}

\* C12: collectSchemas returns the schemas dependencies first: whenever a
\* returned schema refers to a different returned schema, that one comes
\* earlier in the list.
C12_DependenciesFirst ==
    pc = "collected" =>
        \A i, j \in 1..Len(schemasToGen) :
            schemasToGen[j].Name \in DependsOn(i) => j < i

\* The names the traversal meets that are no key of the schema mapping.
RootNames ==
    LET refs(p) == IF p = << >> THEN {} ELSE {p[1].Ref} \ {<< >>}
        given   == {k \in 1..Len(methodsToGenerate) :
                      methodsToGenerate[k].Method # << >>}
    IN  UNION {refs(methodsToGenerate[k].Method[1].Request)
                 \cup refs(methodsToGenerate[k].Method[1].Response) : k \in given}

Dangling ==
    (RootNames \cup UNION {Mentions(doc.Schemas[n]) : n \in Reachable})
        \ DOMAIN doc.Schemas

\* C13: a reference to a name that is no key of the schema mapping raises
\* no error: the collection returns, the absent name is not collected, and
\* every other reachable schema is.
C13_DanglingSkipped ==
    /\ [](Dangling # {} => <>(pc = "collected"))
    /\ [](pc # "panic")
    /\ [](pc = "collected" =>
            /\ needed \cap Dangling = {}
            /\ ResultNames \cap Dangling = {}
            /\ Reachable \subseteq ResultNames)

\* A collection that returned two schemas, one of which refers to an absent
\* name, for methods one of whose references is absent too.
C13_Witness ==
    /\ pc = "collected"
    /\ RootNames \ DOMAIN doc.Schemas # {}
    /\ Len(schemasToGen) = 2
    /\ \E i \in 1..2 : Mentions(schemasToGen[i].Schema) \ DOMAIN doc.Schemas # {}

---------------------------------------------------------------------------
(* The type helpers called on their own, as the package's tests call them. *)

TypeNames == {tString, tInteger, tNumber, tBoolean, tAny, tObject, << >>, <<"x">>}

FormatNames == {<< >>, gInt32, gUint32, gInt64, gUint64, fFloat, fDouble, <<"x">>}

nVideo  == <<"V","i","d","e","o">>
nItemID == <<"i","t","e","m","_","i","d">>
nStr    == <<"S","t","r">>
nFlag   == <<"F","l","a","g">>
nNum    == <<"N","u","m">>
nList   == <<"L","i","s","t">>
nAlias  == <<"A","l","i","a","s">>
nGone   == <<"G","o","n","e">>

\* The schema mapping the properties are resolved against.
TypeSchemas ==
    [n \in {nVideo, nItemID, nStr, nFlag, nNum, nList, nAlias} |->
        CASE n = nVideo  -> ObjectOf([k \in {<<"i","d">>} |-> StringSchema])
          [] n = nItemID -> ObjectOf(NoMap)
          [] n = nStr    -> StringSchema
          [] n = nFlag   -> Scalar(tBoolean, << >>)
          [] n = nNum    -> Scalar(tInteger, gInt32)
          [] n = nList   -> ArrayOf(StringSchema)
          [] n = nAlias  -> RefTo(nVideo)]

RefTargets == DOMAIN TypeSchemas \cup {nGone}

\* Properties: scalars, references, and arrays and maps of them.
PropertyPool ==
    LET base == {Scalar(t, f) : t \in TypeNames, f \in {<< >>, gInt32, fFloat}}
                \cup {RefTo(n) : n \in RefTargets}
                \cup {[Scalar(tBoolean, << >>) EXCEPT !.Ref = nVideo],
                      [ZeroSchema EXCEPT !.Type = tArray]}
    IN  base \cup {ChainOver(d, k, b) : d \in 1..MaxNest, k \in {"items", "addl"},
                                         b \in {Scalar(tBoolean, << >>), RefTo(nVideo),
                                                RefTo(nFlag), StringSchema}}

TypeCalls ==
    {[fn |-> "scalarGoType", typ |-> t, format |-> f, optional |-> b] :
        t \in TypeNames, f \in FormatNames, b \in BOOLEAN}
    \cup
    {[fn |-> "paramGoType",
      param |-> [ZeroParameter EXCEPT !.Type = t, !.Format = f,
                                      !.Required = rq, !.Repeated = rp]] :
        t \in TypeNames, f \in {<< >>, gInt32, fDouble}, rq \in BOOLEAN, rp \in BOOLEAN}
    \cup
    {[fn |-> "GoType", p |-> PropertyInfoOf(<<"f">>, prop, rq, TypeSchemas)] :
        prop \in PropertyPool, rq \in BOOLEAN}

InitTypes ==
    /\ arg \in TypeCalls
    /\ res = << >>
    /\ pc = "call"
    /\ doc = ZeroDoc
    /\ opts = ZeroOpts
    /\ methodsToGenerate = << >>
    /\ needed = {}
    /\ stack = << >>
    /\ schemasToGen = << >>
    /\ ran = << >>
    /\ GenIdle

FnFrame == <<doc, opts, methodsToGenerate, needed, stack, schemasToGen, ran, genVars>>

CallScalarGoType ==
    /\ pc = "call"
    /\ arg.fn = "scalarGoType"
    /\ res' = scalarGoType(arg.typ, arg.format, arg.optional)
    /\ pc' = "returned"
    /\ UNCHANGED <<arg, FnFrame>>

CallParamGoType ==
    /\ pc = "call"
    /\ arg.fn = "paramGoType"
    /\ res' = paramGoType(arg.param)
    /\ pc' = "returned"
    /\ UNCHANGED <<arg, FnFrame>>

CallPropertyGoType ==
    /\ pc = "call"
    /\ arg.fn = "GoType"
    /\ res' = PropertyGoType(arg.p)
    /\ pc' = "returned"
    /\ UNCHANGED <<arg, FnFrame>>

TypesNext == CallScalarGoType \/ CallParamGoType \/ CallPropertyGoType

SpecTypes == InitTypes /\ [][TypesNext]_vars

---------------------------------------------------------------------------
(* Claims about type resolution. *)

\* C4: a boolean resolves to "bool" when the field or parameter is required
\* and to "*bool" when it is not: in scalarGoType, for a parameter that is not
\* repeated, and for a schema property.
C4_BooleanByRequiredness ==
    pc = "returned" =>
        /\ (arg.fn = "scalarGoType" /\ arg.typ = tBoolean)
              => res = (IF arg.optional THEN gPtrBool ELSE gBool)
        /\ (arg.fn = "paramGoType" /\ arg.param.Type = tBoolean /\ ~arg.param.Repeated)
              => res = (IF arg.param.Required THEN gBool ELSE gPtrBool)
        /\ (arg.fn = "GoType" /\ arg.p.Property.Type = tBoolean
                              /\ arg.p.Property.Ref = << >>)
              => res = (IF arg.p.Required THEN gBool ELSE gPtrBool)

\* A boolean property that is not required has been resolved.
C4_Witness ==
    /\ pc = "returned"
    /\ arg.fn = "GoType"
    /\ arg.p.Property.Type = tBoolean
    /\ arg.p.Property.Ref = << >>
    /\ ~arg.p.Required
    /\ res = gPtrBool

GoScalarTypes ==
    {gString, gInt32, gUint32, gInt64, gUint64, gFloat32, gFloat64, gBool,
     gPtrBool, gAny}

\* C5: a property that refers to a named schema of a scalar type resolves to
\* that scalar type, never to a pointer to the named type; a reference to a
\* named schema of object kind resolves to "*" and the exported schema name.
C5_WrapperInlined ==
    (pc = "returned" /\ arg.fn = "GoType" /\ arg.p.Property.Ref \in DOMAIN arg.p.AllSchemas) =>
        LET ref    == arg.p.Property.Ref
            target == arg.p.AllSchemas[ref]
        IN  /\ target.Type \notin {<< >>, tObject, tArray} =>
                 /\ res \in GoScalarTypes
                 /\ res # <<"*">> \o exportedName(ref)
                 /\ target.Type = tString => res = gString
                 /\ target.Type = tInteger /\ target.Format = gInt32 => res = gInt32
            /\ target.Type = tObject =>
                 /\ res = <<"*">> \o exportedName(ref)
                 /\ ref = nItemID => res = <<"*","I","t","e","m","I","D">>
                 /\ ref = nVideo => res = <<"*","V","i","d","e","o">>

\* A reference to a named schema of type "string" has been resolved.
C5_Witness ==
    /\ pc = "returned"
    /\ arg.fn = "GoType"
    /\ arg.p.Property.Ref = nStr
    /\ arg.p.AllSchemas[nStr].Type = tString
    /\ res = gString

---------------------------------------------------------------------------
(* Ordering of properties and parameters. *)

\* sort.Slice on a slice shorter than 12 elements is an insertion sort: each
\* element moves left while less(element, left neighbour) holds.  less is
\* handed over as a function on pairs of elements.
Insert(sorted, x, less) ==
    LET stops == {j \in 1..Len(sorted) : ~less[x, sorted[j]]}
        k     == IF stops = {} THEN 0
                 ELSE CHOOSE j \in stops : \A h \in stops : h <= j
    IN  SubSeq(sorted, 1, k) \o <<x>> \o SubSeq(sorted, k + 1, Len(sorted))

InsertionSort(seq, less) ==
    LET F[i \in 0..Len(seq)] ==
            IF i = 0 THEN << >> ELSE Insert(F[i - 1], seq[i], less)
    IN  F[Len(seq)]

\* Every order in which a range over a map with these keys can visit them.
KeyOrders(keys) ==
    {q \in [1..Cardinality(keys) -> keys] : \A i, j \in DOMAIN q : q[i] = q[j] => i = j}

\* indexOf(slice, s): the first position of s, counted from 0, or -1.
indexOf(slice, s) ==
    IF \E i \in 1..Len(slice) : slice[i] = s
    THEN (CHOOSE i \in 1..Len(slice) :
             slice[i] = s /\ \A j \in 1..(i - 1) : slice[j] # s) - 1
    ELSE -1

ParamLess_NoOrder(method, pi, pj) ==
    IF pi.Param.Required # pj.Param.Required
    THEN pi.Param.Required
    ELSE StrLess(pi.Name, pj.Name)

\* The less function of SortedParams.
ParamLess(method, pi, pj) ==
    IF pi.Param.Required # pj.Param.Required
    THEN pi.Param.Required
    ELSE LET iOrder == indexOf(method.ParameterOrder, pi.Name)
             jOrder == indexOf(method.ParameterOrder, pj.Name)
         IN  IF iOrder # jOrder
             THEN IF iOrder = -1 THEN FALSE
                  ELSE IF jOrder = -1 THEN TRUE
                  ELSE iOrder < jOrder
             ELSE StrLess(pi.Name, pj.Name)

\* MethodInfo.SortedParams, the map having been ranged over in the order keys.
SortedParams(m, keys) ==
    LET method == m.Method[1]
        params == [i \in 1..Len(keys) |->
                      [Name |-> keys[i], Param |-> method.Parameters[keys[i]]]]
        less   == [a \in Range(params), b \in Range(params) |->
                      ParamLess(method, a, b)]
    IN  InsertionSort(params, less)

PropLess_NameOnly(pi, pj) == StrLess(pi.Name, pj.Name)

\* The less function of SortedProperties.
PropLess(pi, pj) ==
    IF pi.Required # pj.Required THEN pi.Required ELSE StrLess(pi.Name, pj.Name)

PropertyRequired_ListOnly(info, name) == name \in info.RequiredSet

\* required := s.RequiredSet[name] || prop.Required
PropertyRequired(info, name) ==
    name \in info.RequiredSet \/ info.Schema.Properties[name].Required

\* SchemaInfo.SortedProperties, the map having been ranged over in the order keys.
SortedProperties(info, allSchemas, keys) ==
    LET props == [i \in 1..Len(keys) |->
                     PropertyInfoOf(keys[i], info.Schema.Properties[keys[i]],
                                    PropertyRequired(info, keys[i]), allSchemas)]
        less  == [a \in Range(props), b \in Range(props) |-> PropLess(a, b)]
    IN  InsertionSort(props, less)

---------------------------------------------------------------------------
(* The ordering helpers called on their own. *)

\* Longest ParameterOrder list of a method.
MaxOrder == 3

PropNames == {<<"B">>, <<"a">>, <<"a","b">>, <<"b">>}

nZebra    == <<"z","e","b","r","a">>
nAlpha    == <<"a","l","p","h","a">>
nRequired == <<"r","e","q","u","i","r","e","d">>
nBeta     == <<"b","e","t","a">>

\* The schema of TestSchemaInfoSortedProperties.
TestSchema ==
    [ObjectOf([n \in {nZebra, nAlpha, nRequired, nBeta} |->
                  [StringSchema EXCEPT !.Required = (n = nRequired)]])
        EXCEPT !.Annotations = << <<nRequired>> >>]

RequiredLists == {<< >>, << << >> >>, << <<<<"a">>>> >>, << <<<<"b">>, <<"x">>>> >>}

SortSchemas ==
    {TestSchema}
    \cup {[ObjectOf([n \in keys |-> [Scalar(typ, << >>) EXCEPT !.Required = (n \in flagged)]])
              EXCEPT !.Annotations = ann] :
            keys \in SUBSET PropNames, flagged \in SUBSET PropNames, ann \in RequiredLists,
            typ \in {tString, tBoolean}}

ParamNames == {<<"a">>, <<"b">>, <<"c">>}

RECURSIVE SeqsUpTo(_, _)
SeqsUpTo(S, n) ==
    IF n = 0 THEN {<< >>}
    ELSE LET shorter == SeqsUpTo(S, n - 1)
         IN  shorter \cup {Append(q, x) : q \in shorter, x \in S}

SortMethods ==
    {[MethodOf(<< >>, << >>) EXCEPT
         !.Parameters = [n \in keys |-> [ZeroParameter EXCEPT
                                            !.Type = tString,
                                            !.Required = (n \in required)]],
         !.ParameterOrder = order] :
       keys \in SUBSET ParamNames, required \in SUBSET ParamNames,
       order \in SeqsUpTo(ParamNames \cup {<<"x">>}, MaxOrder)}

SortCalls ==
    {[fn |-> "SortedProperties", info |-> NewSchemaInfo(<<"S">>, sch)] : sch \in SortSchemas}
    \cup {[fn |-> "SortedParams", m |-> MethodInfoOf(<<"m">>, <<mth>>)] : mth \in SortMethods}

InitSort ==
    /\ arg \in SortCalls
    /\ res = << >>
    /\ pc = "call"
    /\ doc = ZeroDoc
    /\ opts = ZeroOpts
    /\ methodsToGenerate = << >>
    /\ needed = {}
    /\ stack = << >>
    /\ schemasToGen = << >>
    /\ ran = << >>
    /\ GenIdle

CallSortedProperties ==
    /\ pc = "call"
    /\ arg.fn = "SortedProperties"
    /\ \E keys \in KeyOrders(DOMAIN arg.info.Schema.Properties) :
          res' = SortedProperties(arg.info, NoMap, keys)
    /\ pc' = "returned"
    /\ UNCHANGED <<arg, FnFrame>>

CallSortedParams ==
    /\ pc = "call"
    /\ arg.fn = "SortedParams"
    /\ \E keys \in KeyOrders(DOMAIN arg.m.Method[1].Parameters) :
          res' = SortedParams(arg.m, keys)
    /\ pc' = "returned"
    /\ UNCHANGED <<arg, FnFrame>>

SortNext == CallSortedProperties \/ CallSortedParams

SpecSort == InitSort /\ [][SortNext]_vars

---------------------------------------------------------------------------
(* Claims about the ordering. *)

Names(list) == [i \in 1..Len(list) |-> list[i].Name]

\* The list holds each key of the map once.
ListsKeys(list, keys) ==
    /\ Len(list) = Cardinality(keys)
    /\ {list[i].Name : i \in 1..Len(list)} = keys

\* Whether the schema of info makes its property n required.
RequiredProperty(info, n) ==
    \/ info.Schema.Properties[n].Required
    \/ info.Schema.Annotations # << >>
         /\ \E k \in 1..Len(info.Schema.Annotations[1]) :
               info.Schema.Annotations[1][k] = n

\* C6: SortedProperties returns every required property before every property
\* that is not required, each of the two groups in ascending order of name;
\* {zebra, alpha, required, beta} with only "required" required comes out as
\* required, alpha, beta, zebra.
C6_SortedProperties ==
    (pc = "returned" /\ arg.fn = "SortedProperties") =>
        /\ ListsKeys(res, DOMAIN arg.info.Schema.Properties)
        /\ \A i, j \in 1..Len(res) :
             i < j =>
               LET ri == RequiredProperty(arg.info, res[i].Name)
                   rj == RequiredProperty(arg.info, res[j].Name)
               IN  /\ rj => ri
                   /\ ri = rj => StrLess(res[i].Name, res[j].Name)
        /\ arg.info.Schema = TestSchema =>
             Names(res) = <<nRequired, nAlpha, nBeta, nZebra>>

\* The schema of the package's test has been sorted.
C6_Witness ==
    /\ pc = "returned"
    /\ arg.fn = "SortedProperties"
    /\ arg.info.Schema = TestSchema
    /\ Len(res) = 4

\* C9: SortedParams places every required parameter before every parameter
\* that is not required; among the required ones those listed in
\* ParameterOrder come in the order of their positions there, before the
\* required ones that are not listed.
C9_SortedParamsRequired ==
    (pc = "returned" /\ arg.fn = "SortedParams") =>
        LET method == arg.m.Method[1]
            pos(n) == indexOf(method.ParameterOrder, n)
        IN  /\ ListsKeys(res, DOMAIN method.Parameters)
            /\ \A i, j \in 1..Len(res) :
                 i < j =>
                   /\ res[j].Param.Required => res[i].Param.Required
                   /\ (res[i].Param.Required /\ res[j].Param.Required
                          /\ pos(res[j].Name) # -1)
                        => /\ pos(res[i].Name) # -1
                           /\ pos(res[i].Name) < pos(res[j].Name)

\* Two required parameters listed against the order of their names and one
\* parameter that is not required have been sorted.
C9_Witness ==
    /\ pc = "returned"
    /\ arg.fn = "SortedParams"
    /\ arg.m.Method[1].ParameterOrder = <<<<"c">>, <<"b">>>>
    /\ Names(res) = <<<<"c">>, <<"b">>, <<"a">>>>
    /\ res[1].Param.Required /\ res[2].Param.Required /\ ~res[3].Param.Required

\* C10: among the parameters that are not required SortedParams orders the
\* entries by name, ascending, whatever ParameterOrder holds.
C10_OptionalByName ==
    (pc = "returned" /\ arg.fn = "SortedParams") =>
        \A i, j \in 1..Len(res) :
            (i < j /\ ~res[i].Param.Required /\ ~res[j].Param.Required)
                => StrLess(res[i].Name, res[j].Name)

---------------------------------------------------------------------------
(* Descriptions, names and tags of the generated declarations. *)

RECURSIVE TrimLeft(_)
TrimLeft(s) == IF s # << >> /\ IsSpace(Head(s)) THEN TrimLeft(Tail(s)) ELSE s

RECURSIVE TrimRight(_)
TrimRight(s) ==
    IF s # << >> /\ IsSpace(s[Len(s)]) THEN TrimRight(SubSeq(s, 1, Len(s) - 1)) ELSE s

\* strings.TrimSpace
TrimSpace(s) == TrimRight(TrimLeft(s))

Contains(s, sub) == \E i \in 1..(Len(s) - Len(sub) + 1) : SubSeq(s, i, i + Len(sub) - 1) = sub

\* for strings.Contains(desc, "  ") { desc = strings.ReplaceAll(desc, "  ", " ") }
RECURSIVE CollapseSpaces(_)
CollapseSpaces(s) ==
    IF Contains(s, <<" ", " ">>)
    THEN CollapseSpaces(ReplaceAll(s, <<" ", " ">>, <<" ">>))
    ELSE s

cleanDescription(desc) ==
    CollapseSpaces(TrimSpace(
        ReplaceAll(ReplaceAll(ReplaceAll(desc, <<"LF">>, <<" ">>),
                              <<"DQ">>, <<"'">>),
                   <<"BQ">>, <<"'">>)))

\* The length above which MethodInfo.Description cuts the text.
DescriptionLimit == 200

\* The length of the text kept before the "..." of a cut description.
DescriptionKept == 197

\* MethodInfo.Description
MethodDescription(m) ==
    LET desc == cleanDescription(m.Method[1].Description) IN
    IF Len(desc) > DescriptionLimit
    THEN SubSeq(desc, 1, DescriptionKept) \o <<".", ".", ".">>
    ELSE desc

\* strings.Join(list, sep)
RECURSIVE Join(_, _)
Join(list, sep) ==
    IF list = << >> THEN << >>
    ELSE IF Len(list) = 1 THEN Head(list)
    ELSE Head(list) \o sep \o Join(Tail(list), sep)

\* strings.Split(s, ".")
RECURSIVE SplitFrom(_, _)
SplitFrom(s, part) ==
    IF s = << >> THEN <<part>>
    ELSE IF Head(s) = "." THEN <<part>> \o SplitFrom(Tail(s), << >>)
    ELSE SplitFrom(Tail(s), Append(part, Head(s)))

SplitDots(s) == SplitFrom(s, << >>)

\* MethodInfo.ToolName
ToolName(m) == m.Prefix \o ReplaceAll(m.FullName, <<".">>, <<"_">>)

\* MethodInfo.StructName
MethodStructName(m) ==
    LET parts == SplitDots(m.FullName) IN
    m.StructPrefix \o Concat([i \in 1..Len(parts) |-> exportedName(parts[i])])
                   \o <<"A","r","g","s">>

\* ParamInfo.JSONTag and PropertyInfo.JSONTag
JSONTag(name, required) ==
    IF required THEN name ELSE name \o <<",","o","m","i","t","e","m","p","t","y">>

\* The enum and default parts both SchemaDescription methods append.
WithEnumAndDefault(desc, enum, default) ==
    LET withEnum ==
            IF Len(enum) > 0
            THEN (IF desc # << >> THEN desc \o <<" ">> ELSE desc)
                 \o <<"V","a","l","u","e","s",":"," ">> \o Join(enum, <<",", " ">>)
            ELSE desc
    IN  IF default # << >>
        THEN withEnum \o <<" ","(","d","e","f","a","u","l","t",":"," ">> \o default \o <<")">>
        ELSE withEnum

\* ParamInfo.SchemaDescription
ParamSchemaDescription(p) ==
    WithEnumAndDefault(cleanDescription(p.Param.Description), p.Param.Enum, p.Param.Default)

\* PropertyInfo.SchemaDescription
PropertySchemaDescription(p) ==
    LET desc == WithEnumAndDefault(cleanDescription(p.Property.Description),
                                   p.Property.Enum, p.Property.Default)
    IN  IF p.Property.ReadOnly
        THEN desc \o <<" ","(","r","e","a","d","-","o","n","l","y",")">>
        ELSE desc

---------------------------------------------------------------------------
(* The flattened method set. *)

\* collectMethods(prefix, r, methods): the writes it makes to the map, each
\* with the path of resource names it was reached through.
RECURSIVE ResourceEntries(_, _, _)
ResourceEntries(prefix, path, r) ==
    {[key |-> prefix \o <<".">> \o mn, method |-> r.Methods[mn], path |-> path] :
        mn \in DOMAIN r.Methods}
    \cup UNION {ResourceEntries(prefix \o <<".">> \o sn, Append(path, sn), r.Resources[sn]) :
                  sn \in DOMAIN r.Resources}

\* Every write of AllMethods: the top-level methods, then the resources.
MethodEntries(d) ==
    {[key |-> mn, method |-> d.Methods[mn], path |-> << >>] : mn \in DOMAIN d.Methods}
    \cup UNION {ResourceEntries(rn, <<rn>>, d.Resources[rn]) : rn \in DOMAIN d.Resources}

ProperPrefix(p, q) == Len(p) < Len(q) /\ SubSeq(q, 1, Len(p)) = p

\* The maps AllMethods can return.  A write made on the way down to a later
\* write of the same key is always overwritten; writes of one key made in
\* different subtrees land in the order the maps are ranged over.
AllMethods(d) ==
    LET entries == MethodEntries(d)
        keys    == {e.key : e \in entries}
        last(k) == {e \in entries :
                       /\ e.key = k
                       /\ ~\E e2 \in entries : e2.key = k /\ ProperPrefix(e.path, e2.path)}
    IN  {f \in [keys -> {e.method : e \in entries}] :
            \A k \in keys : \E e \in last(k) : f[k] = e.method}

SortedMethodNames_Unsorted(d) ==
    LET sorted == SortStrings({e.key : e \in MethodEntries(d)})
        n      == Len(sorted)
    IN  [i \in 1..n |-> sorted[n + 1 - i]]

\* Document.SortedMethodNames
SortedMethodNames(d) == SortStrings({e.key : e \in MethodEntries(d)})

---------------------------------------------------------------------------
(* AllMethods and collectMethods step by step: the pending loops are kept   *)
(* as a stack of frames, each with the keys its range has still to visit.   *)

Loop(kind, prefix, r, rest) ==
    [kind |-> kind, prefix |-> prefix, r |-> r, rest |-> rest]

\* methods[k] = m
Put(f, k, m) == [x \in DOMAIN f \cup {k} |-> IF x = k THEN m ELSE f[x]]


\* prefix + "." + methodName, and prefix + "." + subName
FullName(prefix, name) == prefix \o <<".">> \o name

\* collectMethods(prefix, r, methods): its two loops, in source order.
CollectMethodsCall(prefix, r) ==
    <<Loop("methods", prefix, r, DOMAIN r.Methods),
      Loop("resources", prefix, r, DOMAIN r.Resources)>>

\* methods := make(map[string]*Method), then the two loops of AllMethods.
FlattenBegin ==
    /\ pc = "flatten"
    /\ allMethods' = NoMap
    /\ stack' = <<Loop("topMethods", << >>, doc, DOMAIN doc.Methods),
                  Loop("topResources", << >>, doc, DOMAIN doc.Resources)>>
    /\ pc' = "flattening"
    /\ UNCHANGED <<doc, opts, methodsToGenerate, needed, schemasToGen, ran,
                   o, methodNames, buf, ret, formatErr, fnVars>>

\* for name, m := range d.Methods { methods[name] = m }
\* for methodName, m := range r.Methods { methods[prefix+"."+methodName] = m }
FlattenMethods ==
    /\ pc = "flattening"
    /\ stack # << >>
    /\ Head(stack).kind \in {"topMethods", "methods"}
    /\ LET f == Head(stack) IN
       IF f.rest = {}
       THEN /\ stack' = Tail(stack)
            /\ allMethods' = allMethods
       ELSE \E n \in f.rest :
              /\ allMethods' =
                    Put(allMethods,
                        IF f.kind = "topMethods" THEN n ELSE FullName(f.prefix, n),
                        f.r.Methods[n])
              /\ stack' = <<[f EXCEPT !.rest = @ \ {n}]>> \o Tail(stack)
    /\ UNCHANGED <<doc, opts, pc, methodsToGenerate, needed, schemasToGen, ran,
                   o, methodNames, buf, ret, formatErr, fnVars>>

\* for resourceName, resource := range d.Resources { collectMethods(resourceName, ...) }
\* for subName, subResource := range r.Resources { collectMethods(prefix+"."+subName, ...) }
FlattenResources ==
    /\ pc = "flattening"
    /\ stack # << >>
    /\ Head(stack).kind \in {"topResources", "resources"}
    /\ LET f == Head(stack) IN
       IF f.rest = {}
       THEN stack' = Tail(stack)
       ELSE \E n \in f.rest :
              stack' =
                 CollectMethodsCall(
                     IF f.kind = "topResources" THEN n ELSE FullName(f.prefix, n),
                     f.r.Resources[n])
                 \o <<[f EXCEPT !.rest = @ \ {n}]>> \o Tail(stack)
    /\ UNCHANGED <<doc, opts, pc, methodsToGenerate, needed, schemasToGen, ran,
                   genVars, fnVars>>

\* return methods
FlattenFinish ==
    /\ pc = "flattening"
    /\ stack = << >>
    /\ pc' = "flattened"
    /\ UNCHANGED <<doc, opts, methodsToGenerate, needed, stack, schemasToGen,
                   ran, genVars, fnVars>>

FlattenNext ==
    \/ FlattenBegin
    \/ FlattenMethods
    \/ FlattenResources
    \/ FlattenFinish

---------------------------------------------------------------------------
(* Rendering and formatting. *)

ParamField(p) ==
    [FieldName |-> exportedName(p.Name), GoType |-> paramGoType(p.Param),
     JSONTag |-> JSONTag(p.Name, p.Param.Required),
     SchemaDescription |-> ParamSchemaDescription(p)]

PropertyField(p) ==
    [FieldName |-> exportedName(p.Name), GoType |-> PropertyGoType(p),
     JSONTag |-> JSONTag(p.Name, p.Required),
     SchemaDescription |-> PropertySchemaDescription(p)]

\* The declarations the template can emit for one method: one for each order
\* in which the parameter map can be ranged over.
ArgDecls(m) ==
    {[StructName |-> MethodStructName(m), ToolName |-> ToolName(m),
      Description |-> MethodDescription(m),
      Fields |-> LET sorted == SortedParams(m, keys)
                 IN  [i \in 1..Len(sorted) |-> ParamField(sorted[i])]] :
        keys \in KeyOrders(DOMAIN m.Method[1].Parameters)}

\* The declarations the template can emit for one schema.
SchemaDecls(info, allSchemas) ==
    {[StructName |-> exportedName(info.Name),
      Description |-> cleanDescription(info.Schema.Description),
      Fields |-> LET sorted == SortedProperties(info, allSchemas, keys)
                 IN  [i \in 1..Len(sorted) |-> PropertyField(sorted[i])]] :
        keys \in KeyOrders(DOMAIN info.Schema.Properties)}

\* Every sequence whose i-th element is drawn from the i-th set.
RECURSIVE Products(_)
Products(sets) ==
    IF sets = << >> THEN {<< >>}
    ELSE {<<x>> \o rest : x \in Head(sets), rest \in Products(Tail(sets))}

\* A method whose *Method is nil makes {{.Description}} fail.
TemplateFails(methods) == \E i \in 1..Len(methods) : methods[i].Method = << >>

\* The texts codeTemplate.Execute can write for the template data.
Rendered(options, d, methods, schemas) ==
    {[PackageName |-> options.PackageName, APIName |-> d.Name,
      APITitle |-> d.Title, APIVersion |-> d.Version,
      GenerateSchema |-> options.GenerateSchema,
      Schemas |-> IF options.GenerateSchema THEN sd ELSE << >>,
      Methods |-> md,
      Table |-> [i \in 1..Len(md) |->
                    [ToolName |-> md[i].ToolName, Description |-> md[i].Description]],
      formatted |-> FALSE] :
        sd \in Products([i \in 1..Len(schemas) |-> SchemaDecls(schemas[i], d.Schemas)]),
        md \in Products([i \in 1..Len(methods) |-> ArgDecls(methods[i])])}

\* The text format.Source returns when it returns no error.
Formatted(text) == [text EXCEPT !.formatted = TRUE]

\* The defaults GenerateMCPTools fills into its copy of the options.
WithDefaults(options, d) ==
    [options EXCEPT
        !.PackageName = IF @ = << >> THEN <<"t","o","o","l","s">> ELSE @,
        !.Prefix = IF @ = << >> THEN d.Name \o <<"_">> ELSE @,
        !.StructPrefix = IF @ = << >> THEN <<"A","P","I">> ELSE @]

Returned(code, err) == [code |-> code, err |-> err]

ReturnSyntaxError_Nothing(text) == Returned(<< >>, "syntax errors")

\* return buf.String(), fmt.Errorf("generated code has syntax errors: %w", err)
ReturnSyntaxError(text) == Returned(<<text>>, "syntax errors")

---------------------------------------------------------------------------
(* GenerateMCPTools. *)

CollectVars == <<needed, stack, schemasToGen>>

SelectedNames_Resorted(list, d) ==
    IF Len(list) = 0 THEN SortedMethodNames(d) ELSE SortStrings(Range(list))

\* methodNames := opts.Methods; if len(methodNames) == 0 { methodNames =
\* doc.SortedMethodNames() }
SelectedNames(list, d) ==
    IF Len(list) = 0 THEN SortedMethodNames(d) ELSE list

GenStart_InPlace ==
    /\ pc = "start"
    /\ opts' = WithDefaults(opts, doc)
    /\ o' = opts'
    /\ allMethods' \in AllMethods(doc)
    /\ methodNames' = SelectedNames(opts.Methods, doc)
    /\ methodsToGenerate' = << >>
    /\ pc' = "select"
    /\ UNCHANGED <<doc, CollectVars, ran, buf, ret, formatErr, fnVars>>

\* opts is passed by value: the defaults go into the function's own copy.
GenStart ==
    /\ pc = "start"
    /\ o' = WithDefaults(opts, doc)
    /\ allMethods' \in AllMethods(doc)
    /\ methodNames' = SelectedNames(opts.Methods, doc)
    /\ methodsToGenerate' = << >>
    /\ pc' = "select"
    /\ UNCHANGED <<doc, opts, CollectVars, ran, buf, ret, formatErr, fnVars>>

\* One turn of the loop over methodNames with a name AllMethods holds.
GenSelectMethod ==
    /\ pc = "select"
    /\ Len(methodsToGenerate) < Len(methodNames)
    /\ LET name == methodNames[Len(methodsToGenerate) + 1] IN
       /\ name \in DOMAIN allMethods
       /\ methodsToGenerate' =
             Append(methodsToGenerate,
                    [FullName |-> name, Method |-> allMethods[name],
                     Prefix |-> o.Prefix, StructPrefix |-> o.StructPrefix])
    /\ UNCHANGED <<doc, opts, pc, CollectVars, ran, genVars, fnVars>>

GenMethodNotFound_Skip ==
    /\ pc = "select"
    /\ Len(methodsToGenerate) < Len(methodNames)
    /\ methodNames[Len(methodsToGenerate) + 1] \notin DOMAIN allMethods
    /\ methodNames' = SubSeq(methodNames, 1, Len(methodsToGenerate))
                      \o SubSeq(methodNames, Len(methodsToGenerate) + 2, Len(methodNames))
    /\ UNCHANGED <<doc, opts, pc, methodsToGenerate, CollectVars, ran, o,
                   allMethods, buf, ret, formatErr, fnVars>>

\* The turn of the loop with a name AllMethods does not hold.
GenMethodNotFound ==
    /\ pc = "select"
    /\ Len(methodsToGenerate) < Len(methodNames)
    /\ methodNames[Len(methodsToGenerate) + 1] \notin DOMAIN allMethods
    /\ ret' = Returned(<< >>, "method not found")
    /\ pc' = "done"
    /\ UNCHANGED <<doc, opts, methodsToGenerate, CollectVars, ran, o,
                   allMethods, methodNames, buf, formatErr, fnVars>>

GenAfterSelect_AlwaysCollect ==
    /\ pc = "select"
    /\ Len(methodsToGenerate) = Len(methodNames)
    /\ pc' = "collect"
    /\ UNCHANGED <<doc, opts, methodsToGenerate, CollectVars, ran, genVars, fnVars>>

\* if opts.GenerateSchema { schemasToGen = collectSchemas(...) }
GenAfterSelect ==
    /\ pc = "select"
    /\ Len(methodsToGenerate) = Len(methodNames)
    /\ pc' = IF o.GenerateSchema THEN "collect" ELSE "render"
    /\ UNCHANGED <<doc, opts, methodsToGenerate, CollectVars, ran, genVars, fnVars>>

\* codeTemplate.Execute(&buf, data)
GenRender ==
    /\ pc \in {"render", "collected"}
    /\ ran' = Append(ran, "render")
    /\ IF TemplateFails(methodsToGenerate)
       THEN /\ ret' = Returned(<< >>, "template execution failed")
            /\ pc' = "done"
            /\ buf' = buf
       ELSE /\ \E text \in Rendered(o, doc, methodsToGenerate, schemasToGen) :
                  buf' = <<text>>
            /\ pc' = "format"
            /\ ret' = ret
    /\ UNCHANGED <<doc, opts, methodsToGenerate, CollectVars, o, allMethods,
                   methodNames, formatErr, fnVars>>

\* formatted, err := format.Source(buf.Bytes()) and the two returns that
\* follow it.  go/format is no code of this repository: whether it finds
\* the text to be Go is its answer, and the step goes on from either one.
GenFormat ==
    /\ pc = "format"
    /\ ran' = Append(ran, "format")
    /\ formatErr' \in {"nil", "error"}
    /\ ret' = IF formatErr' = "error"
              THEN ReturnSyntaxError(buf[1])
              ELSE Returned(<<Formatted(buf[1])>>, "none")
    /\ pc' = "done"
    /\ UNCHANGED <<doc, opts, methodsToGenerate, CollectVars, o, allMethods,
                   methodNames, buf, fnVars>>

Next ==
    \/ GenStart
    \/ GenSelectMethod
    \/ GenMethodNotFound
    \/ GenAfterSelect
    \/ CollectNext
    \/ GenRender
    \/ GenFormat

---------------------------------------------------------------------------
(* The documents and options GenerateMCPTools is run on. *)

\* Longest explicit method list in the options.
MaxSelected == 2

mGet   == <<"g","e","t">>
mList  == <<"r",".","l","i","s","t">>
mDel   == <<"r",".","s",".","d","e","l">>
mNope  == <<"n","o","p","e">>

ParamsOf(required, optional) ==
    [n \in required \cup optional |->
        [ZeroParameter EXCEPT !.Type = IF n \in required THEN tString ELSE tBoolean,
                              !.Required = (n \in required)]]

GetMethod ==
    [MethodOf(<< >>, SchemaRef(<<"A">>)) EXCEPT
        !.Description = <<"G","e","t"," "," ","i","t">>,
        !.Parameters = ParamsOf({<<"i","d">>}, {<<"a","l","l">>}),
        !.ParameterOrder = <<<<"i","d">>>>]

ListMethod ==
    [MethodOf(SchemaRef(<<"A","b">>), SchemaRef(<<"A">>)) EXCEPT
        !.Parameters = ParamsOf({}, {<<"q">>})]

DelMethod == MethodOf(SchemaRef(<<"B">>), << >>)

ResourceOf(methods, resources) == [Methods |-> methods, Resources |-> resources]

\* A top-level method, a resource method and a method of a nested resource;
\* the last may be null in the document.
DocOf(schemas, del) ==
    [Name |-> <<"t">>,
     Version |-> <<"v","1">>,
     Title |-> <<"T"," ","A","P","I">>,
     Schemas |-> schemas,
     Methods |-> [n \in {<<"g","e","t">>} |-> <<GetMethod>>],
     Resources |->
        [n \in {<<"r">>} |->
            ResourceOf([k \in {<<"l","i","s","t">>} |-> <<ListMethod>>],
                       [k \in {<<"s">>} |->
                           ResourceOf([j \in {<<"d","e","l">>} |-> del], NoMap)])]]

GenSchemaMaps ==
    { [n \in {<<"A">>, <<"A","b">>} |->
          IF n = <<"A">>
          THEN ObjectOf([k \in {<<"i","d">>, <<"o","k">>} |->
                           IF k = <<"i","d">> THEN RefTo(<<"A","b">>)
                           ELSE Scalar(tBoolean, << >>)])
          ELSE StringSchema],
      [n \in {<<"A">>, <<"B">>} |->
          IF n = <<"A">> THEN ArrayOf(RefTo(<<"A">>))
          ELSE TwoProps(<<"A">>, <<"A","b">>)],
      [n \in {<<"A">>, <<"A","b">>, <<"B">>, <<"C">>} |->
          CASE n = <<"A">> ->
                 ObjectOf([k \in {<<"i","d">>, <<"k","i","d","s">>, <<"m">>} |->
                             CASE k = <<"i","d">> -> RefTo(<<"A","b">>)
                               [] k = <<"k","i","d","s">> -> ArrayOf(RefTo(<<"B">>))
                               [] k = <<"m">> -> MapOf(RefTo(<<"C">>))])
            [] n = <<"A","b">> -> StringSchema
            [] n = <<"B">> -> ObjectOf([k \in {<<"u","p">>} |-> RefTo(<<"A">>)])
            [] n = <<"C">> -> ObjectOf(NoMap)] }

\* A second top-level resource, named "r.s": its method del has the dotted
\* name of the method del of r's sub-resource s.
SiblingDoc(schemas) ==
    LET base == DocOf(schemas, <<DelMethod>>) IN
    [base EXCEPT !.Resources =
        [n \in {<<"r">>, <<"r",".","s">>} |->
            IF n = <<"r">> THEN base.Resources[n]
            ELSE ResourceOf([k \in {<<"d","e","l">>} |-> <<GetMethod>>], NoMap)]]

\* A second top-level method, named "r_list", next to the method list of
\* the resource r.
UnderscoreDoc(schemas) ==
    [DocOf(schemas, <<DelMethod>>) EXCEPT !.Methods =
        [n \in {<<"g","e","t">>, <<"r","_","l","i","s","t">>} |-> <<GetMethod>>]]

\* A document whose name ends in a newline and that gives no version.
NewlineDoc(schemas) ==
    [DocOf(schemas, <<DelMethod>>) EXCEPT !.Name = <<"t","LF">>, !.Version = << >>]

Documents ==
    {DocOf(sm, del) : sm \in GenSchemaMaps, del \in {<< >>, <<DelMethod>>}}
    \cup {NewlineDoc(sm) : sm \in {CHOOSE m \in GenSchemaMaps : <<"C">> \in DOMAIN m}}
    \cup {SiblingDoc(sm) : sm \in GenSchemaMaps}
    \cup {UnderscoreDoc(sm) : sm \in GenSchemaMaps}

Options ==
    {[PackageName |-> pkg, Methods |-> ms, Prefix |-> pre, StructPrefix |-> sp,
      GenerateSchema |-> gs] :
        pkg \in {<< >>, <<"p">>, <<"p","-","q">>, <<"g","o">>},
        ms \in SeqsUpTo({mGet, mList, mDel, mNope}, MaxSelected),
        pre \in {<< >>, <<"x","_">>},
        sp \in {<< >>, <<"T">>},
        gs \in BOOLEAN}

Init ==
    /\ doc \in Documents
    /\ opts \in Options
    /\ pc = "start"
    /\ methodsToGenerate = << >>
    /\ needed = {}
    /\ stack = << >>
    /\ schemasToGen = << >>
    /\ ran = << >>
    /\ GenIdle
    /\ FnIdle

Spec == Init /\ [][Next]_vars

---------------------------------------------------------------------------
(* Claims about GenerateMCPTools. *)

\* The names of the explicit method list that AllMethods does not hold.
UnknownNames ==
    {opts.Methods[i] : i \in 1..Len(opts.Methods)}
        \ {e.key : e \in MethodEntries(doc)}

\* C7: if the explicit method list holds a name that is no key of the
\* flattened method set, generation returns an error and the empty text, and
\* no schema collection, rendering or formatting step runs before it does,
\* however many names of the list are valid and wherever the unknown one is.
C7_UnknownMethodFailsFast ==
    UnknownNames # {} =>
        /\ ran = << >>
        /\ buf = << >>
        /\ pc \in {"start", "select", "done"}
        /\ pc = "done" => ret = Returned(<< >>, "method not found")

\* Generation has returned on a list whose second name is unknown and whose
\* first is valid.
C7_Witness ==
    /\ pc = "done"
    /\ Len(opts.Methods) = 2
    /\ opts.Methods[1] \notin UnknownNames
    /\ opts.Methods[2] \in UnknownNames
    /\ Len(methodsToGenerate) = 1
    /\ opts.GenerateSchema
    /\ ret.err = "method not found"

\* C8: when the rendered text fails the syntax validation GenerateMCPTools
\* returns the text as rendered, not empty, with an error; when the validation
\* succeeds it returns the formatted text and no error; a text that is not
\* empty comes with an error in the validation-failure case only.  The
\* validation is the call of format.Source, which has run exactly when
\* formatErr is set, and fails when that is an error.
C8_FormatOutcome ==
    /\ formatErr # "unset" <=> (ran # << >> /\ ran[Len(ran)] = "format")
    /\ pc = "done" =>
        /\ formatErr = "error"
              => /\ ret.code = buf
                 /\ ret.code # << >>
                 /\ ~ret.code[1].formatted
                 /\ ret.err # "none"
        /\ formatErr = "nil"
              => /\ ret.code = <<Formatted(buf[1])>>
                 /\ ret.code[1].formatted
                 /\ ret.err = "none"
        /\ (ret.code # << >> /\ ret.err # "none") => formatErr = "error"

\* Generation has returned, with an error, the text it rendered for a
\* method under the package name go: a keyword stands where the package
\* clause needs a name, and format.Source returns an error.
C8_Witness ==
    /\ pc = "done"
    /\ o.PackageName = <<"g","o">>
    /\ formatErr = "error"
    /\ ret.err = "syntax errors"
    /\ ret.code = buf
    /\ buf # << >>
    /\ buf[1].PackageName = <<"g","o">>
    /\ Len(buf[1].Methods) > 0

---------------------------------------------------------------------------
(* AllMethods called on its own, on documents whose resources nest.        *)

\* Deepest nesting of resources in the documents.
MaxDepth == 2

nC   == <<"c">>
nBC  == <<"b",".","c">>
nABC == <<"a",".","b",".","c">>
nA   == <<"a">>
nB   == <<"b">>
nAB  == <<"a",".","b">>

\* The method a document holds under the given name of the given resource;
\* its description tells the methods of a document apart.
MethodAt(path, name) ==
    <<[MethodOf(<< >>, << >>) EXCEPT
         !.Description = Join(Append(path, name), <<"/">>)]>>

\* A resource with none, one or two methods and at most one sub-resource,
\* nested up to d deep below the given path.
RECURSIVE Spines(_, _)
Spines(path, d) ==
    IF d = 0 THEN {}
    ELSE {ResourceOf([n \in ms |-> MethodAt(path, n)], sub) :
            ms \in {{}, {nC}, {nC, nBC}},
            sub \in {NoMap} \cup {[k \in {nB} |-> t] : t \in Spines(Append(path, nB), d - 1)}}

ResourceMaps ==
    UNION {{f \in [S -> UNION {Spines(<<n>>, MaxDepth) : n \in S}] :
              \A n \in S : f[n] \in Spines(<<n>>, MaxDepth)} :
           S \in SUBSET {nA, nAB}}

\* Documents with top-level methods and up to two top-level resources; the
\* names may hold a '.', as the keys of a JSON object may.
TreeDocs ==
    {[ZeroDoc EXCEPT !.Methods = [n \in tm |-> MethodAt(<< >>, n)],
                     !.Resources = rs] :
        tm \in {{}, {nC}, {nC, nABC}}, rs \in ResourceMaps}

InitMethods ==
    /\ doc \in TreeDocs
    /\ opts = ZeroOpts
    /\ pc = "flatten"
    /\ methodsToGenerate = << >>
    /\ needed = {}
    /\ stack = << >>
    /\ schemasToGen = << >>
    /\ ran = << >>
    /\ GenIdle
    /\ FnIdle

SpecMethods == InitMethods /\ [][FlattenNext]_vars

\* Every method of a document or resource, with the names of the resources
\* it is reached through.
RECURSIVE Owned(_, _)
Owned(path, r) ==
    {[path |-> path, name |-> n, method |-> r.Methods[n]] : n \in DOMAIN r.Methods}
    \cup UNION {Owned(Append(path, sn), r.Resources[sn]) : sn \in DOMAIN r.Resources}

\* r1.r2.….rk.m
DottedName(e) == Join(Append(e.path, e.name), <<".">>)

\* C14: every method of the document is in the mapping AllMethods
\* returns, under the names of its resources and its own name joined by
\* '.', a top-level method under its bare name.
C14_EveryMethodPresent ==
    pc = "flattened" =>
        \A e \in Owned(<< >>, doc) :
            /\ DottedName(e) \in DOMAIN allMethods
            /\ allMethods[DottedName(e)] = e.method

---------------------------------------------------------------------------
(* Claims about what GenerateMCPTools selects and emits. *)

\* The argument-type declaration of the text is the one of the method.
DeclaredFor(decl, m) ==
    /\ decl.StructName = MethodStructName(m)
    /\ decl.ToolName = ToolName(m)

\* C15: with an empty method list GenerateMCPTools generates one
\* argument-type declaration for every key of the flattened method set, in
\* ascending lexicographic order of the full dotted name.
C15_AllMethodsSorted ==
    (pc = "done" /\ Len(opts.Methods) = 0 /\ ret.code # << >>) =>
        LET decls == ret.code[1].Methods
            keys  == {DottedName(e) : e \in Owned(<< >>, doc)}
        IN  /\ Len(decls) = Cardinality(keys)
            /\ Len(methodsToGenerate) = Len(decls)
            /\ {methodsToGenerate[i].FullName : i \in 1..Len(decls)} = keys
            /\ \A i, j \in 1..Len(decls) :
                 i < j => StrLess(methodsToGenerate[i].FullName,
                                  methodsToGenerate[j].FullName)
            /\ \A i \in 1..Len(decls) : DeclaredFor(decls[i], methodsToGenerate[i])

\* A generation without a method list that returned three declarations:
\* the top-level method, the resource method and the nested one, for the
\* document t under the package name p.
C15_Witness ==
    /\ pc = "done"
    /\ Len(opts.Methods) = 0
    /\ opts.PackageName = <<"p">>
    /\ doc.Name = <<"t">>
    /\ ret.err = "none"
    /\ Len(ret.code[1].Methods) = 3
    /\ methodsToGenerate[1].FullName = mGet
    /\ methodsToGenerate[3].FullName = mDel

\* C16: with schema generation disabled the dependency collection is not
\* run and the output holds no schema declaration, while one argument-type
\* declaration for each selected operation and the lookup table are still
\* emitted; with it enabled a declaration is emitted for each collected
\* schema.
C16_SchemaGenerationSwitch ==
    /\ ~opts.GenerateSchema => ("collect" \notin Range(ran) /\ schemasToGen = << >>)
    /\ (pc = "done" /\ ret.code # << >>) =>
         LET text == ret.code[1] IN
         /\ Len(text.Methods) = Len(methodsToGenerate)
         /\ Len(text.Table) = Len(methodsToGenerate)
         /\ \A i \in 1..Len(methodsToGenerate) :
              /\ DeclaredFor(text.Methods[i], methodsToGenerate[i])
              /\ text.Table[i].ToolName = ToolName(methodsToGenerate[i])
         /\ IF opts.GenerateSchema
            THEN /\ "collect" \in Range(ran)
                 /\ Len(text.Schemas) = Len(schemasToGen)
                 /\ \A i \in 1..Len(schemasToGen) :
                      text.Schemas[i].StructName = exportedName(schemasToGen[i].Name)
            ELSE text.Schemas = << >>

\* A generation with schema generation disabled returned two argument-type
\* declarations, whose methods refer to schemas, and no schema declaration,
\* for the document t under the package name p.
C16_Witness ==
    /\ pc = "done"
    /\ opts.PackageName = <<"p">>
    /\ doc.Name = <<"t">>
    /\ ret.err = "none"
    /\ ~opts.GenerateSchema
    /\ Len(ret.code[1].Methods) = 2
    /\ Len(ret.code[1].Table) = 2
    /\ ret.code[1].Schemas = << >>
    /\ \A i \in 1..2 : methodsToGenerate[i].Method[1].Response # << >>

---------------------------------------------------------------------------
(* The name and description helpers called on their own.  Names are       *)
(* letters and separators; some begin a word with a letter of two bytes.   *)

\* Longest name drawn from NameAlphabet.
MaxNameLen == 3

NameAlphabet == {"a", "p", "i", "d", "A", "I", "_", "-", " "}

\* The inputs of TestExportedName.
TestNames ==
    {<<"i","d">>,
     <<"v","i","d","e","o","I","d">>,
     <<"u","r","l">>,
     <<"t","h","u","m","b","n","a","i","l","U","r","l">>,
     <<"h","t","t","p","_","m","e","t","h","o","d">>,
     <<"a","p","i","_","k","e","y">>,
     <<"m","a","d","e","F","o","r","K","i","d","s">>,
     <<"s","n","a","k","e","_","c","a","s","e">>,
     <<"k","e","b","a","b","-","c","a","s","e">>}

\* Names with the accented letter at the start of a word.
AccentedNames ==
    {<<"C3","A9","a">>, <<"a","_","C3","A9","a">>, <<"a","C3","A9">>}

NameInputs ==
    TestNames \cup AccentedNames
    \cup UNION {[1..n -> NameAlphabet] : n \in 0..MaxNameLen}

NameCalls ==
    {[fn |-> "exportedName", s |-> n] : n \in NameInputs}
    \cup {[fn |-> "FieldName", of |-> k, s |-> n] :
             k \in {"parameter", "property", "schema"}, n \in NameInputs}

\* How far the lengths of the descriptions go below and above the limit.
MaxOver == 3

\* n times the letter x, and k times the two bytes of the accented letter.
Xs(n) == [i \in 1..n |-> "x"]

Accented(k) == [i \in 1..(2 * k) |-> IF i % 2 = 1 THEN "C3" ELSE "A9"]

\* Descriptions around the limit: plain ones, ones the cleaning shortens,
\* and ones that end in letters of two bytes.
DescriptionInputs ==
    LET around == (DescriptionLimit - MaxOver)..(DescriptionLimit + MaxOver) IN
    {Xs(n) : n \in around}
    \cup {<<" ">> \o Xs(n) \o <<"LF">> : n \in around}
    \cup {Xs(100) \o <<" ", " ", " ">> \o Xs(n - 100) : n \in around}
    \cup {<<"DQ">> \o Xs(n - 2) \o <<"BQ">> : n \in around}
    \cup {Xs(n - k) \o Accented(k) : n \in around, k \in 1..MaxOver}

DescriptionCalls ==
    {[fn |-> "Description",
      m |-> MethodInfoOf(<<"m">>, <<[MethodOf(<< >>, << >>) EXCEPT !.Description = d]>>)] :
        d \in DescriptionInputs}

\* Longest text cleanDescription is called on by itself.
MaxCleanLen == 4

\* A letter, the three characters cleanDescription replaces, and the white
\* space it meets: the space and the tab.
CleanAlphabet == {"x", " ", "HT", "LF", "DQ", "BQ"}

CleanInputs ==
    UNION {[1..n -> CleanAlphabet] : n \in 0..MaxCleanLen}
    \cup {<<"x", "CR", "LF", "x">>}

CleanCalls == {[fn |-> "cleanDescription", s |-> d] : d \in CleanInputs}

\* Descriptions, enum values and defaults with and without the characters
\* that end a tag string or a raw string.
TagTexts ==
    {<< >>, <<"a">>, <<"a", "DQ", "b">>, <<"BQ", "a">>, <<"a", "LF", " ", "b">>}

TagEnums == {<< >>, << <<"a">> >>, << <<"a">>, <<"b", "DQ">> >>, << <<"LF">> >>}

TagCalls ==
    {[fn |-> "SchemaDescription", of |-> "parameter",
      p |-> [Name |-> <<"f">>,
             Param |-> [ZeroParameter EXCEPT !.Description = d, !.Enum = en,
                                             !.Default = df]]] :
        d \in TagTexts, en \in TagEnums, df \in TagTexts}
    \cup
    {[fn |-> "SchemaDescription", of |-> "property",
      p |-> PropertyInfoOf(<<"f">>,
                           [StringSchema EXCEPT !.Description = d, !.Enum = en,
                                                !.Default = df, !.ReadOnly = ro],
                           FALSE, NoMap)] :
        d \in TagTexts, en \in TagEnums, df \in TagTexts, ro \in BOOLEAN}

InitText ==
    /\ arg \in NameCalls \cup DescriptionCalls \cup CleanCalls \cup TagCalls
    /\ res = << >>
    /\ pc = "call"
    /\ doc = ZeroDoc
    /\ opts = ZeroOpts
    /\ methodsToGenerate = << >>
    /\ needed = {}
    /\ stack = << >>
    /\ schemasToGen = << >>
    /\ ran = << >>
    /\ GenIdle

CallExportedName ==
    /\ pc = "call"
    /\ arg.fn = "exportedName"
    /\ res' = exportedName(arg.s)
    /\ pc' = "returned"
    /\ UNCHANGED <<arg, FnFrame>>

\* ParamInfo.FieldName, PropertyInfo.FieldName and SchemaInfo.StructName, as
\* the template calls them.
CallFieldName ==
    /\ pc = "call"
    /\ arg.fn = "FieldName"
    /\ res' =
         CASE arg.of = "parameter" ->
                ParamField([Name |-> arg.s, Param |-> ZeroParameter]).FieldName
           [] arg.of = "property" ->
                PropertyField(PropertyInfoOf(arg.s, StringSchema, FALSE, NoMap)).FieldName
           [] arg.of = "schema" ->
                (CHOOSE d \in SchemaDecls(NewSchemaInfo(arg.s, StringSchema), NoMap) :
                    TRUE).StructName
    /\ pc' = "returned"
    /\ UNCHANGED <<arg, FnFrame>>

CallDescription ==
    /\ pc = "call"
    /\ arg.fn = "Description"
    /\ res' = MethodDescription(arg.m)
    /\ pc' = "returned"
    /\ UNCHANGED <<arg, FnFrame>>

CallCleanDescription ==
    /\ pc = "call"
    /\ arg.fn = "cleanDescription"
    /\ res' = cleanDescription(arg.s)
    /\ pc' = "returned"
    /\ UNCHANGED <<arg, FnFrame>>

\* ParamInfo.SchemaDescription and PropertyInfo.SchemaDescription, as the
\* template calls them for the jsonschema tag of a field.
CallSchemaDescription ==
    /\ pc = "call"
    /\ arg.fn = "SchemaDescription"
    /\ res' = IF arg.of = "parameter"
              THEN ParamField(arg.p).SchemaDescription
              ELSE PropertyField(arg.p).SchemaDescription
    /\ pc' = "returned"
    /\ UNCHANGED <<arg, FnFrame>>

TextNext ==
    \/ CallExportedName
    \/ CallFieldName
    \/ CallDescription
    \/ CallCleanDescription
    \/ CallSchemaDescription

SpecText == InitText /\ [][TextNext]_vars

\* The exported name as the specification words it: the words between the
\* separators, each with its first letter in upper case, joined, and the
\* acronyms rewritten in one pass from left to right.
Separators == {"_", "-", " ", "LF"}

RECURSIVE WordsOf(_)
WordsOf(s) ==
    IF s = << >> THEN << >>
    ELSE IF Head(s) \in Separators THEN WordsOf(Tail(s))
    ELSE LET n == CHOOSE k \in 1..Len(s) :
                    /\ \A j \in 1..k : s[j] \notin Separators
                    /\ k = Len(s) \/ s[k + 1] \in Separators
         IN  <<SubSeq(s, 1, n)>> \o WordsOf(SubSeq(s, n + 1, Len(s)))

RECURSIVE Canonical(_)
Canonical(s) ==
    IF s = << >> THEN << >>
    ELSE IF Len(s) >= 2 /\ SubSeq(s, 1, 2) = <<"I","d">>
    THEN <<"I","D">> \o Canonical(SubSeq(s, 3, Len(s)))
    ELSE IF Len(s) >= 3 /\ SubSeq(s, 1, 3) = <<"U","r","l">>
    THEN <<"U","R","L">> \o Canonical(SubSeq(s, 4, Len(s)))
    ELSE IF Len(s) >= 4 /\ SubSeq(s, 1, 4) = <<"H","t","t","p">>
    THEN <<"H","T","T","P">> \o Canonical(SubSeq(s, 5, Len(s)))
    ELSE IF Len(s) >= 3 /\ SubSeq(s, 1, 3) = <<"A","p","i">>
    THEN <<"A","P","I">> \o Canonical(SubSeq(s, 4, Len(s)))
    ELSE <<Head(s)>> \o Canonical(Tail(s))

NameAsSpecified(s) ==
    LET words == WordsOf(s)
        letter(r) == IF r = <<"C3", "A9">> THEN <<"C3", "89">>
                     ELSE IF Len(r) = 1 THEN <<UpperASCII(r[1])>> ELSE r
        upper(w) == LET rs == Runes(w) IN letter(rs[1]) \o Concat(Tail(rs))
    IN  Canonical(Concat([i \in 1..Len(words) |-> upper(words[i])]))

\* C17: exportedName splits its input at '_', '-' and white space, puts the
\* first letter of each word in upper case, joins the words and rewrites Id,
\* Url, Http and Api to ID, URL, HTTP and API; videoId gives VideoID,
\* http_method gives HTTPMethod and kebab-case gives KebabCase; schema,
\* property and parameter names all go through it.
C17_ExportedName ==
    (pc = "returned" /\ arg.fn \in {"exportedName", "FieldName"}) =>
        /\ res = NameAsSpecified(arg.s)
        /\ arg.s = <<"v","i","d","e","o","I","d">> => res = <<"V","i","d","e","o","I","D">>
        /\ arg.s = <<"h","t","t","p","_","m","e","t","h","o","d">> => res = <<"H","T","T","P","M","e","t","h","o","d">>
        /\ arg.s = <<"k","e","b","a","b","-","c","a","s","e">> => res = <<"K","e","b","a","b","C","a","s","e">>

---------------------------------------------------------------------------
(* Further claims about the resolved types. *)

\* The type an element resolves to when it is taken as not optional.
ElementType(schema, allSchemas) ==
    PropertyGoType(PropertyInfoOf(<<"e">>, schema, TRUE, allSchemas))

\* C18: the elements of a sequence and the values of a map are resolved as
\* not optional: an array is "[]" and its item type, a map-typed object
\* "map[string]" and its value type, a repeated parameter "[]" and its
\* scalar type, so that a boolean element is "bool", never "*bool", also
\* when the enclosing property or parameter is not required.
C18_ElementsNotOptional ==
    pc = "returned" =>
        /\ (arg.fn = "GoType" /\ arg.p.Property.Ref = << >>
               /\ arg.p.Property.Type = tArray /\ arg.p.Property.Items # << >>) =>
             /\ res = <<"[", "]">> \o ElementType(arg.p.Property.Items[1], arg.p.AllSchemas)
             /\ ~Contains(res, gPtrBool)
        /\ (arg.fn = "GoType" /\ arg.p.Property.Ref = << >>
               /\ arg.p.Property.Type = tObject
               /\ arg.p.Property.AdditionalProperties # << >>) =>
             /\ res = <<"m","a","p","[","s","t","r","i","n","g","]">>
                      \o ElementType(arg.p.Property.AdditionalProperties[1],
                                     arg.p.AllSchemas)
             /\ ~Contains(res, gPtrBool)
        /\ (arg.fn = "paramGoType" /\ arg.param.Repeated) =>
             /\ res = <<"[", "]">>
                      \o paramGoType([arg.param EXCEPT !.Repeated = FALSE,
                                                       !.Required = TRUE])
             /\ ~Contains(res, gPtrBool)

\* A property that is not required and is an array of maps whose values
\* refer to a boolean schema resolved to []map[string]bool.
C18_Witness ==
    /\ pc = "returned"
    /\ arg.fn = "GoType"
    /\ ~arg.p.Required
    /\ arg.p.Property = ArrayOf(MapOf(RefTo(nFlag)))
    /\ res = <<"[", "]", "m","a","p","[","s","t","r","i","n","g","]">> \o gBool
\* C19: a schema property is treated as required (sorted first, JSON tag
\* without omitempty, a boolean resolved as plain bool) exactly when its
\* name is in the owning schema's list of required names or its own
\* required flag is set; either one alone suffices.
C19_RequiredByListOrFlag ==
    (pc = "returned" /\ arg.fn = "SortedProperties") =>
        /\ ListsKeys(res, DOMAIN arg.info.Schema.Properties)
        /\ \A i \in 1..Len(res) :
             LET required == RequiredProperty(arg.info, res[i].Name)
                 field    == PropertyField(res[i])
             IN  /\ res[i].Required <=> required
                 /\ field.JSONTag =
                       IF required THEN res[i].Name
                       ELSE res[i].Name \o <<",","o","m","i","t","e","m","p","t","y">>
                 /\ res[i].Property.Type = tBoolean =>
                       field.GoType = IF required THEN gBool ELSE gPtrBool
                 /\ \A j \in 1..Len(res) :
                       (required /\ ~RequiredProperty(arg.info, res[j].Name)) => i < j

\* Three boolean properties were sorted: one required by the schema's list
\* only, one by its own flag only, and one, smaller in name, by neither.
C19_Witness ==
    /\ pc = "returned"
    /\ arg.fn = "SortedProperties"
    /\ Names(res) = <<<<"a">>, <<"b">>, <<"B">>>>
    /\ arg.info.Schema.Annotations = << <<<<"a">>>> >>
    /\ ~arg.info.Schema.Properties[<<"a">>].Required
    /\ arg.info.Schema.Properties[<<"b">>].Required
    /\ ~arg.info.Schema.Properties[<<"B">>].Required
    /\ arg.info.Schema.Properties[<<"a">>].Type = tBoolean
    /\ PropertyField(res[2]).GoType = gBool /\ PropertyField(res[3]).GoType = gPtrBool

---------------------------------------------------------------------------
(* Claims about the descriptions. *)

\* The number of characters of a text: every byte but the second byte of a
\* letter of two bytes starts one.
CharCount(s) == Cardinality({i \in 1..Len(s) : s[i] # "A9"})

\* The first n characters of a text of more than n characters.
FirstChars(s, n) ==
    LET k == CHOOSE j \in 0..Len(s) :
                /\ CharCount(SubSeq(s, 1, j)) = n
                /\ s[j + 1] # "A9"
    IN  SubSeq(s, 1, k)

\* C20: the description MethodInfo.Description returns is at most 200
\* characters long: a cleaned description of at most 200 characters is
\* returned unchanged, a longer one is replaced by its first 197 characters
\* followed by "...".
C20_DescriptionAtMost200 ==
    (pc = "returned" /\ arg.fn = "Description") =>
        LET clean == cleanDescription(arg.m.Method[1].Description) IN
        /\ CharCount(res) <= 200
        /\ CharCount(clean) <= 200 => res = clean
        /\ CharCount(clean) > 200 =>
              res = FirstChars(clean, 197) \o <<".", ".", ".">>

\* The places of a text where a run of two white-space characters starts.
SpaceRuns(s) == {i \in 1..(Len(s) - 1) : IsSpace(s[i]) /\ IsSpace(s[i + 1])}

\* C21: for every input the result of cleanDescription holds no newline, no
\* double quote and no backtick, no two consecutive white-space characters,
\* and neither starts nor ends with white space.
C21_CleanDescription ==
    (pc = "returned" /\ arg.fn = "cleanDescription") =>
        /\ Range(res) \cap {"LF", "DQ", "BQ"} = {}
        /\ SpaceRuns(res) = {}
        /\ res # << >> => ~IsSpace(res[1]) /\ ~IsSpace(res[Len(res)])

\* C26: the text placed inside the jsonschema tag of a field, the
\* SchemaDescription of a parameter or of a schema property with its enum
\* values, default value and read-only marker, never holds a double quote, a
\* backtick or a newline.
C26_TagTextSafe ==
    (pc = "returned" /\ arg.fn = "SchemaDescription") =>
        Range(res) \cap {"DQ", "BQ", "LF"} = {}

---------------------------------------------------------------------------
(* Further claims about GenerateMCPTools. *)

\* C22: generation only reads its input: no step of GenerateMCPTools, whether
\* it ends with an error or not, changes the Document or anything it owns, and
\* the caller's options value stays as it was even when the defaults were
\* filled in.
C22_InputUnchanged == [][doc' = doc /\ opts' = opts]_vars

\* Generation has returned text after filling in all three defaults and
\* collecting schemas, and the caller's options still have the empty fields.
C22_Witness ==
    /\ pc = "done"
    /\ doc.Name = <<"t">>
    /\ ret.err = "none"
    /\ opts.PackageName = << >> /\ opts.Prefix = << >> /\ opts.StructPrefix = << >>
    /\ o.PackageName # << >> /\ o.Prefix # << >> /\ o.StructPrefix # << >>
    /\ Len(schemasToGen) > 0

\* C23: generation is deterministic: for a fixed Document and fixed options
\* the selected operations, the collected schema list, the order of the
\* fields of every declaration, the text and the error outcome are the same
\* whatever order the maps are ranged over.  Each is the one value its
\* inputs allow: the selected method is the same in every map AllMethods can
\* build, the schema list is the sorted closure of the selected roots, the
\* text is the only one the template can write, and the outcome follows
\* from the document, the text and what format.Source says of the text.
C23_Deterministic ==
    /\ \A am \in AllMethods(doc) :
          \A i \in 1..Len(methodsToGenerate) :
              methodsToGenerate[i].Method = am[methodsToGenerate[i].FullName]
    /\ pc \in {"collected", "format", "done"} /\ "collect" \in Range(ran)
          => schemasToGen = CollectResult(Reachable, doc.Schemas)
    /\ buf # << >> => Rendered(o, doc, methodsToGenerate, schemasToGen) = {buf[1]}
    /\ pc = "done" =>
          ret = IF UnknownNames # {} THEN Returned(<< >>, "method not found")
                ELSE IF TemplateFails(methodsToGenerate)
                THEN Returned(<< >>, "template execution failed")
                ELSE IF formatErr = "nil" THEN Returned(<<Formatted(buf[1])>>, "none")
                ELSE Returned(buf, "syntax errors")

\* C25: the lookup table has one entry for each selected operation, and two
\* selected operations with different full names get different tool
\* identifiers (the prefix and the full name with every '.' replaced by
\* '_'), so that no key of the emitted table occurs twice.
C25_ToolNamesDistinct ==
    buf # << >> =>
        LET table == buf[1].Table IN
        /\ Len(table) = Len(methodsToGenerate)
        /\ \A i, j \in 1..Len(table) :
              methodsToGenerate[i].FullName # methodsToGenerate[j].FullName
                  => table[i].ToolName # table[j].ToolName

\* The named schema type a resolved type mentions behind its "[]" and
\* "map[string]" prefixes, or the empty string when it mentions none.
RECURSIVE NamedType(_)
NamedType(t) ==
    IF Len(t) >= 2 /\ SubSeq(t, 1, 2) = <<"[", "]">>
    THEN NamedType(SubSeq(t, 3, Len(t)))
    ELSE IF Len(t) >= 11
            /\ SubSeq(t, 1, 11) = <<"m","a","p","[","s","t","r","i","n","g","]">>
    THEN NamedType(SubSeq(t, 12, Len(t)))
    ELSE IF t # << >> /\ Head(t) = "*" /\ t # <<"*","b","o","o","l">>
    THEN Tail(t)
    ELSE << >>

\* Every reference of the document names a schema of the document.
RefsExist ==
    /\ \A n \in DOMAIN doc.Schemas : Mentions(doc.Schemas[n]) \subseteq DOMAIN doc.Schemas
    /\ \A e \in MethodEntries(doc) :
          e.method # << >> =>
              /\ e.method[1].Request # << >>
                    => e.method[1].Request[1].Ref \in DOMAIN doc.Schemas
              /\ e.method[1].Response # << >>
                    => e.method[1].Response[1].Ref \in DOMAIN doc.Schemas

\* C27: with schema generation enabled and every reference of the document
\* naming an existing schema, the emitted declarations are closed: when the
\* type resolved for a property of an emitted schema mentions a named schema
\* type, also inside "[]" or "map[string]", that schema is in the collected
\* list and has a declaration.
C27_DeclarationsClosed ==
    (buf # << >> /\ o.GenerateSchema /\ RefsExist) =>
        \A i \in 1..Len(buf[1].Schemas) :
            \A k \in 1..Len(buf[1].Schemas[i].Fields) :
                LET t == NamedType(buf[1].Schemas[i].Fields[k].GoType) IN
                t # << >> =>
                    \E j \in 1..Len(schemasToGen) :
                        /\ exportedName(schemasToGen[j].Name) = t
                        /\ buf[1].Schemas[j].StructName = t

\* Text has been returned whose declaration of A has a field of type []*B
\* and one of type map[string]*C, with B and C declared, for the document
\* t under the package name p.
C27_Witness ==
    /\ pc = "done"
    /\ opts.PackageName = <<"p">>
    /\ doc.Name = <<"t">>
    /\ ret.err = "none"
    /\ o.GenerateSchema
    /\ RefsExist
    /\ \E i \in 1..Len(buf[1].Schemas) :
          /\ buf[1].Schemas[i].StructName = <<"A">>
          /\ \E k \in 1..Len(buf[1].Schemas[i].Fields) :
                buf[1].Schemas[i].Fields[k].GoType = <<"[", "]", "*", "B">>
          /\ \E k \in 1..Len(buf[1].Schemas[i].Fields) :
                buf[1].Schemas[i].Fields[k].GoType =
                    <<"m","a","p","[","s","t","r","i","n","g","]","*","C">>
    /\ {<<"B">>, <<"C">>} \subseteq ResultNames

\* C29: when an explicit method list is given and all its names are known,
\* the argument-type declarations and the entries of the lookup table come
\* in exactly the order of the list, not sorted again, one for each element
\* of the list, so that a name listed twice is declared twice.
C29_ListOrderKept ==
    (buf # << >> /\ Len(opts.Methods) > 0 /\ UnknownNames = {}) =>
        LET text == buf[1] IN
        /\ Len(text.Methods) = Len(opts.Methods)
        /\ Len(text.Table) = Len(opts.Methods)
        /\ \A i \in 1..Len(opts.Methods) :
              LET m == [FullName |-> opts.Methods[i], Prefix |-> o.Prefix,
                        StructPrefix |-> o.StructPrefix]
              IN  /\ DeclaredFor(text.Methods[i], m)
                  /\ text.Table[i].ToolName = ToolName(m)

\* Text has been returned for a list of two names given against their
\* sorted order.
C29_Witness ==
    /\ pc = "done"
    /\ ret.code # << >>
    /\ opts.Methods = <<mList, mGet>>
    /\ ret.code[1].Methods[1].ToolName = o.Prefix \o <<"r","_","l","i","s","t">>
    /\ ret.code[1].Methods[2].ToolName = o.Prefix \o <<"g","e","t">>

---------------------------------------------------------------------------
(* A further claim about the dependency collection. *)

\* C28: during the dependency collection the visited set only grows and
\* every name in it is, in every state, a key of the schema mapping; so the
\* final lookup of each collected name succeeds and the returned list has
\* exactly as many entries as the visited set.
C28_VisitedAreKeys ==
    /\ [][needed \subseteq needed']_vars
    /\ [](needed \subseteq DOMAIN doc.Schemas)
    /\ [](pc = "collected" =>
            /\ Len(schemasToGen) = Cardinality(needed)
            /\ ResultNames = needed)

\* A collection has returned two or more schemas after meeting a name that
\* is no key of the mapping.
C28_Witness ==
    /\ pc = "collected"
    /\ Dangling # {}
    /\ Cardinality(needed) >= 2
    /\ Len(schemasToGen) = Cardinality(needed)

---------------------------------------------------------------------------
(* Further claims about the scalar types. *)

\* C24: a scalar that is not a boolean resolves without regard to
\* requiredness: "string" gives string; "integer" gives int32, uint32, int64
\* or uint64 for the format of that name and int64 for any other or no
\* format; "number" gives float32 for the format float and float64 for
\* double, any other or no format; "any" and every unrecognized type name
\* give any.
C24_NonBooleanScalars ==
    pc = "returned" =>
        /\ (arg.fn = "scalarGoType" /\ arg.typ # tBoolean) =>
              /\ res = scalarGoType(arg.typ, arg.format, ~arg.optional)
              /\ arg.typ = tString => res = <<"s","t","r","i","n","g">>
              /\ arg.typ = tInteger =>
                    res = IF arg.format \in {gInt32, gUint32, gInt64, gUint64}
                          THEN arg.format ELSE <<"i","n","t","6","4">>
              /\ arg.typ = tNumber =>
                    res = IF arg.format = fFloat
                          THEN <<"f","l","o","a","t","3","2">>
                          ELSE <<"f","l","o","a","t","6","4">>
              /\ arg.typ \notin {tString, tInteger, tNumber} => res = <<"a","n","y">>
        /\ (arg.fn = "paramGoType" /\ arg.param.Type # tBoolean) =>
              res = paramGoType([arg.param EXCEPT !.Required = ~@])

\* A number of format float has been resolved as an optional scalar.
C24_Witness ==
    /\ pc = "returned"
    /\ arg.fn = "scalarGoType"
    /\ arg.typ = tNumber /\ arg.format = fFloat /\ arg.optional
    /\ res = gFloat32

====
